---- MODULE Spec2Model ----
(***************************************************************************)
(* A model of the pygents runtime: the bounded Context containers          *)
(* (ContextPool, ContextQueue) and the Turn execution state machine        *)
(* (Turn.returning / Turn.yielding over Tool / AsyncGenTool).              *)
(*                                                                         *)
(* Every coroutine is cut at its await points: one action is the code that *)
(* runs between two consecutive awaits, so the interleavings of the model  *)
(* are the interleavings the asyncio event loop can produce.  Firing the   *)
(* hooks of an event is an await, hence a suspension point.  Hooks are     *)
(* taken to return normally, except where fire() is followed alone.        *)
(***************************************************************************)
EXTENDS Integers, Sequences, FiniteSets, TLC

\* ---------------------------------------------------------------- bounds
MaxIds == 3
MaxLimit == 2
MaxPoolOps == 4
MaxQueueOps == 2
MaxBatch == 2
MaxTime == 2
MaxTimeout == 1
MaxYield == 2
MaxTurnCalls == 2
MaxTurns == 2
MaxRuns == 2
MaxInvokes == 3
MaxHooks == 2
MaxForkOps == 3
MaxQueued == 2
MaxAttached == 3
MaxTurnHooks == 2
MaxSends == 2

\* ------------------------------------------------------ program constants
NoLimit == 0
NoId == 0
QueueSentinel == 0
NoDeadline == -1
NoTime == -1

\* ------------------------------------------------------------- inputs
Callers == {"a", "b"}
Main == "a"
Ids == 1..MaxIds
Contents == {1, 2}
Descriptions == {"None", "d"}
PoolLimits == {NoLimit} \cup (1..MaxLimit)
QueueLimits == 1..MaxLimit

VARIABLES
    pool_limit,     \* ContextPool._limit
    pool_items,     \* ContextPool._items, in insertion order
    pool_pc,        \* per caller: position inside add/remove/clear
    pool_op,        \* per caller: the operation last called
    pool_arg,       \* per caller: the item (add) or id (remove) passed
    pool_oldest,    \* per caller: add()'s local oldest_key
    pool_err,       \* per caller: the exception the last call raised
    pool_snap,      \* per caller: _items when an add() of a present id was made
    pool_snapEv,    \* per caller: number of on-evict firings at that time
    pool_first,     \* history: the ids present, in the order each was first
                    \* inserted, and whether the entry was updated since
    pool_evicted,   \* the arguments of every ON_EVICT firing, in order
    pool_calls,     \* number of calls made
    pool_added,     \* the items of the add() calls, while pool_distinct
    pool_distinct,  \* only add() calls with distinct ids were made so far
    cq_limit,       \* ContextQueue._items.maxlen
    cq_items,       \* ContextQueue._items
    cq_pc,          \* per caller: position inside append/clear
    cq_args,        \* per caller: append()'s *items
    cq_idx,         \* per caller: index of the loop over items
    cq_err,         \* per caller: the exception the last call raised
    cq_evicted,     \* the arguments of every ON_EVICT firing, in order
    cq_appended,    \* every item handed to deque.append, in order
    cq_cleared,     \* clear() has been called
    cq_calls,       \* number of calls made
    cq_made,        \* number of ContextItems handed to append() so far
    now,            \* the clock (time.monotonic / datetime.now)
    tool_kind,      \* "coroutine" (Tool) or "asyncgen" (AsyncGenTool)
    tool_lock,      \* Tool.lock: "none", "free" or the call holding it
    t_timeout,      \* Turn.timeout
    t_running,      \* Turn._is_running
    t_meta,         \* Turn.metadata: start_time, end_time, stop_reason
    t_output,       \* Turn.output
    t_calls,        \* number of returning()/yielding() calls made
    t_pc,           \* per call: position inside returning()/yielding()
    t_method,       \* per call: "returning" or "yielding"
    t_exc,          \* per call: the exception being handled
    t_raised,       \* per call: the exception that reached the caller
    t_got,          \* per call: the values the caller received
    t_deadline,     \* per call: when the timeout of the call elapses
    t_queue,        \* per call: yielding()'s local asyncio.Queue
    t_agg,          \* per call: yielding()'s local aggregated list
    t_events,       \* per call: the events fired, in order
    t_late,         \* per call: the body was unfinished when the timeout elapsed
    p_pc,           \* per call: position inside Tool.__call__ / produce()
    p_exc,          \* per call: the exception the Tool body raised
    p_cancel,       \* per call: producer.cancel() was called
    p_n,            \* per call: number of values the body has yielded
    a_tools,        \* Agent._tool_names
    a_queue,        \* Agent._queue
    a_current,      \* Agent._current_turn
    a_running,      \* Agent._is_running
    a_paused,       \* Agent._pause_event is clear
    a_pc,           \* position inside Agent.run()
    a_value,        \* run(): the value being routed
    a_mark,         \* run(): calls made on the Pool and the Queue before routing
    a_n,            \* run(): number of values the Turn in flight has produced
    a_fate,         \* what run() did with a_value: "forwarded" to its caller,
                    \* "consumed" by routing, "raised" by routing; else "none"
    a_started,      \* every Turn run() has started, in order
    a_enq,          \* every Turn put on Agent._queue, in order
    a_made,         \* number of Turns constructed so far
    a_runs,         \* number of run() calls made
    a_raised,       \* the exception the last run() raised to its caller
    a_failed,       \* the failure of a Turn inside the current run()
    put_pc,         \* per caller of put(): position inside put()
    put_turn,       \* per caller of put(): the Turn given
    put_log,        \* per caller of put(): what the call did, in order
    put_raised,     \* per caller of put(): the exception raised
    put_kept,       \* per caller of put(): the call has not changed the queue
    ch_made,        \* a child Agent was built by branch() or from_dict()
    ch_tools,       \* the child's _tool_names
    ch_queue,       \* the child's _queue
    ch_current,     \* the child's _current_turn
    i_calls,        \* number of direct calls of the Tool made so far
    hk_flag,        \* per hook: hook(..., lock=True) gave it an asyncio.Lock
    hk_lock,        \* per hook: "free" or the task holding its lock
    hk_pc,          \* per task: position inside the hook wrapper
    hk_of,          \* per task: the hook it is calling
    h_type,         \* per hook: its .type
    h_tags,         \* per hook: its .tags
    g_hooks,        \* HookRegistry._global_hooks
    f_pc,           \* position inside HookRegistry.fire()
    f_src,          \* fire(): _source_tags
    f_args,         \* fire(): instance_hooks
    f_i,            \* fire(): instance hooks invoked so far
    f_snap,         \* fire(): the list get_global_by_type() returned
    f_j,            \* fire(): global hooks looked at so far
    f_fired,        \* fire(): fired_ids
    f_calls,        \* per hook: invocations made by the current fire()
    f_exc,          \* fire(): the hook whose exception is leaving fire()
    r_map,          \* per registry: _registry, name -> object
    r_last,         \* the last register() call and what came of it
    b_made,         \* branch() of the parent Agent has made the child
    b_queue,        \* per Agent: _queue, the Turn objects in it
    b_cur,          \* per Agent: _current_turn
    b_turn,         \* per Turn object: its recorded state
    b_pool,         \* per Agent: the ids held by its context_pool
    b_cq,           \* per Agent: the items of its context_queue
    b_n,            \* number of Turn objects constructed
    b_last,         \* the Agent the last call was made on
    bk_kind,        \* the container branched: "pool" or "queue"
    bc_made,        \* branch() of the container has made the child
    bc_limit,       \* the child's limit
    bc_items,       \* the child's _items
    s_agent,        \* the Agent that is recorded
    s_pc,           \* "made", or "done" once it was recorded and restored
    s_d1,           \* its to_dict()
    s_d2,           \* the to_dict() of the Agent from_dict(s_d1) returned
    w_running,      \* a Turn's _is_running
    w_attrs,        \* the Turn's other attributes
    w_last,         \* the last assignment to the Turn and what came of it
    g_running,      \* an Agent's _is_running
    g_paused,       \* the Agent's _pause_event is clear
    g_attrs,        \* the Agent's other attributes
    g_last,         \* the last assignment to the Agent and what came of it
    th_kind,        \* run(): the Tool of the Turn taken: coroutine or asyncgen
    th_agent,       \* run(): Agent.turn_hooks
    th_hooks,       \* run(): the hooks of the Turn taken
    th_orig,        \* run(): original_hooks
    th_running,     \* run(): _is_running of the Turn taken
    th_pc,          \* run(): position inside the iteration
    th_n,           \* run(): values the Turn has produced
    th_end,         \* run(): how the iteration ended
    sd_n,           \* number of send() calls made
    sd_last         \* the last send() call and what came of it

poolVars == <<pool_limit, pool_items, pool_pc, pool_op, pool_arg, pool_oldest,
              pool_err, pool_snap, pool_snapEv, pool_evicted, pool_calls,
              pool_added, pool_distinct, pool_first>>
queueVars == <<cq_limit, cq_items, cq_pc, cq_args, cq_idx, cq_err,
               cq_evicted, cq_appended, cq_cleared, cq_calls, cq_made>>
toolVars == <<tool_kind, tool_lock>>
turnVars == <<now, t_timeout, t_running, t_meta, t_output, t_calls, t_pc,
              t_method, t_exc, t_raised, t_got, t_deadline, t_queue, t_agg,
              t_events, t_late, p_pc, p_exc, p_cancel, p_n>>
runVars == <<a_tools, a_queue, a_current, a_running, a_paused, a_pc, a_value,
             a_mark, a_n, a_fate, a_started, a_enq, a_made, a_runs,
             a_raised, a_failed>>
putVars == <<put_pc, put_turn, put_log, put_raised, put_kept>>
childVars == <<ch_made, ch_tools, ch_queue, ch_current>>
agentVars == <<runVars, putVars, childVars>>
invokeVars == <<i_calls>>
hookVars == <<hk_flag, hk_lock, hk_pc, hk_of>>
fireVars == <<h_type, h_tags, g_hooks, f_pc, f_src, f_args, f_i, f_snap, f_j,
              f_fired, f_calls, f_exc>>
regVars == <<r_map, r_last>>
branchVars == <<b_made, b_queue, b_cur, b_turn, b_pool, b_cq, b_n, b_last>>
forkVars == <<bk_kind, bc_made, bc_limit, bc_items>>
serVars == <<s_agent, s_pc, s_d1, s_d2>>
attrVars == <<w_running, w_attrs, w_last, g_running, g_paused, g_attrs, g_last>>
iterVars == <<th_kind, th_agent, th_hooks, th_orig, th_running, th_pc, th_n,
              th_end>>
sendVars == <<sd_n, sd_last>>
lateVars == <<iterVars, sendVars>>
extVars == <<hookVars, fireVars, regVars, branchVars, forkVars, serVars,
             attrVars, lateVars>>
coreVars == <<poolVars, queueVars, toolVars, turnVars, agentVars, invokeVars>>
vars == <<coreVars, extVars>>
notPool == <<queueVars, toolVars, turnVars, agentVars, invokeVars, extVars>>
notQueue == <<poolVars, toolVars, turnVars, agentVars, invokeVars, extVars>>
notTurn == <<poolVars, queueVars, agentVars, invokeVars, extVars>>
notAgent == <<poolVars, queueVars, toolVars, turnVars, invokeVars, extVars>>
notTool == <<poolVars, queueVars, agentVars, extVars>>

\* ---------------------------------------------------------------- helpers
Range(s) == {s[i] : i \in 1..Len(s)}

Min(a, b) == IF a < b THEN a ELSE b

LastN(s, n) == SubSeq(s, Len(s) - Min(n, Len(s)) + 1, Len(s))

FirstN(s, n) == SubSeq(s, 1, Min(n, Len(s)))

RemoveAt(s, i) == SubSeq(s, 1, i - 1) \o SubSeq(s, i + 1, Len(s))

\* ------------------------------------------------------------ ContextItem
ContextItem(content, description, id) ==
    [content |-> content, description |-> description, id |-> id]

PoolItems == {ContextItem(v, "d", i) : v \in Contents, i \in Ids}

BadPoolItems ==
    {ContextItem(1, d, i) : d \in Descriptions, i \in {1, NoId}} \ PoolItems

\* the items of one append() call: n fresh ContextItems without an id (the
\* Queue never looks at the content, so the k-th item made has content k)
QueueItems(made, n) ==
    [i \in 1..n |-> ContextItem(made + i, "None", NoId)]

\* a value that is not a ContextItem
NotAnItem == [value |-> 1]

IsContextItem(x) == "content" \in DOMAIN x

\* ------------------------------------------------------------ ContextPool
\* dict helpers: _items is an insertion-ordered dict keyed by item.id
Keys(items) == [i \in 1..Len(items) |-> items[i].id]

HasKey(items, id) == \E i \in 1..Len(items) : items[i].id = id

IndexOf(items, id) == CHOOSE i \in 1..Len(items) : items[i].id = id

\* a dict that moves an updated key behind every other key
DictSetMovesToEnd(items, item) ==
    IF HasKey(items, item.id)
    THEN Append(RemoveAt(items, IndexOf(items, item.id)), item)
    ELSE Append(items, item)

\* self._items[item.id] = item: an existing key keeps its position
DictSet(items, item) ==
    IF HasKey(items, item.id)
    THEN [items EXCEPT ![IndexOf(items, item.id)] = item]
    ELSE Append(items, item)

\* self._items[key]
DictGet(items, id) == items[IndexOf(items, id)]

\* del self._items[key]
DictDel(items, id) == RemoveAt(items, IndexOf(items, id))

\* an add() that evicts at capacity without looking at the identifier
NeedsEvictAnyId(limit, items, item) ==
    /\ limit # NoLimit
    /\ Len(items) >= limit

\* the condition of add() that decides whether the oldest entry is evicted
NeedsEvict(limit, items, item) ==
    /\ limit # NoLimit
    /\ ~HasKey(items, item.id)
    /\ Len(items) >= limit

\* a Pool that evicts the entry inserted last
NewestKey(items) == items[Len(items)].id

\* next(iter(self._items)): the key inserted first among those present
OldestKey(items) == items[1].id

\* the call history stays "add() with distinct ids only" when the call is an
\* add() of an id no earlier add() was given
StaysDistinct(op, arg) ==
    /\ pool_distinct
    /\ op = "add"
    /\ ~HasKey(pool_added, arg.id)

\* the history of first insertions: an id that is not present goes last, an
\* id that is present keeps its place and is marked as updated
FirstAdded(first, id) ==
    IF \E i \in 1..Len(first) : first[i].id = id
    THEN [i \in 1..Len(first) |->
             IF first[i].id = id THEN [first[i] EXCEPT !.updated = TRUE]
             ELSE first[i]]
    ELSE Append(first, [id |-> id, updated |-> FALSE])

FirstDropped(first, id) == SelectSeq(first, LAMBDA e : e.id # id)

PoolCall(c, op, arg) ==
    /\ pool_pc[c] \in {"idle", "done"}
    /\ pool_calls < MaxPoolOps
    /\ pool_calls' = pool_calls + 1
    /\ pool_op' = [pool_op EXCEPT ![c] = op]
    /\ pool_arg' = [pool_arg EXCEPT ![c] = arg]
    /\ IF op = "add" /\ HasKey(pool_items, arg.id)
       THEN /\ pool_snap' = [pool_snap EXCEPT ![c] = pool_items]
            /\ pool_snapEv' = [pool_snapEv EXCEPT ![c] = Len(pool_evicted)]
       ELSE /\ pool_snap' = [pool_snap EXCEPT ![c] = <<>>]
            /\ pool_snapEv' = [pool_snapEv EXCEPT ![c] = 0]
    /\ IF op = "add" /\ arg \in BadPoolItems
       THEN UNCHANGED <<pool_added, pool_distinct>>
       ELSE IF StaysDistinct(op, arg)
       THEN /\ pool_added' = Append(pool_added, arg)
            /\ pool_distinct' = TRUE
       ELSE /\ pool_added' = <<>>
            /\ pool_distinct' = FALSE

\* add(): the item lacks an id or a description
PoolAddInvalid(c, item) ==
    /\ item \in BadPoolItems
    /\ PoolCall(c, "add", item)
    /\ pool_pc' = [pool_pc EXCEPT ![c] = "done"]
    /\ pool_err' = [pool_err EXCEPT ![c] = "ValueError"]
    /\ UNCHANGED <<pool_first, pool_limit, pool_items, pool_oldest, pool_evicted>>
    /\ UNCHANGED notPool

\* add(): from the call to the first await (ON_EVICT or BEFORE_ADD hooks)
PoolAddBegin(c, item) ==
    /\ item \in PoolItems
    /\ PoolCall(c, "add", item)
    /\ pool_err' = [pool_err EXCEPT ![c] = "None"]
    /\ IF NeedsEvict(pool_limit, pool_items, item)
       THEN /\ pool_oldest' = [pool_oldest EXCEPT ![c] = OldestKey(pool_items)]
            /\ pool_evicted' =
                   Append(pool_evicted,
                          DictGet(pool_items, OldestKey(pool_items)))
            /\ pool_pc' = [pool_pc EXCEPT ![c] = "add_evict"]
       ELSE /\ pool_pc' = [pool_pc EXCEPT ![c] = "add_before"]
            /\ UNCHANGED <<pool_oldest, pool_evicted>>
    /\ UNCHANGED <<pool_first, pool_limit, pool_items>>
    /\ UNCHANGED notPool

\* add(): ON_EVICT hooks returned; del self._items[oldest_key]; BEFORE_ADD
PoolAddEvict(c) ==
    /\ pool_pc[c] = "add_evict"
    /\ IF HasKey(pool_items, pool_oldest[c])
       THEN /\ pool_items' = DictDel(pool_items, pool_oldest[c])
            /\ pool_first' = FirstDropped(pool_first, pool_oldest[c])
            /\ pool_pc' = [pool_pc EXCEPT ![c] = "add_before"]
            /\ UNCHANGED pool_err
       ELSE /\ pool_err' = [pool_err EXCEPT ![c] = "KeyError"]
            /\ pool_pc' = [pool_pc EXCEPT ![c] = "done"]
            /\ UNCHANGED <<pool_items, pool_first>>
    /\ UNCHANGED <<pool_limit, pool_op, pool_arg, pool_oldest, pool_snap,
                   pool_snapEv, pool_evicted, pool_calls, pool_added,
                   pool_distinct>>
    /\ UNCHANGED notPool

\* add(): BEFORE_ADD hooks returned; self._items[item.id] = item; AFTER_ADD
PoolAddInsert(c) ==
    /\ pool_pc[c] = "add_before"
    /\ pool_items' = DictSet(pool_items, pool_arg[c])
    /\ pool_first' = FirstAdded(pool_first, pool_arg[c].id)
    /\ pool_pc' = [pool_pc EXCEPT ![c] = "add_after"]
    /\ UNCHANGED <<pool_limit, pool_op, pool_arg, pool_oldest, pool_err,
                   pool_snap, pool_snapEv, pool_evicted, pool_calls, pool_added, pool_distinct>>
    /\ UNCHANGED notPool

\* add(): AFTER_ADD hooks returned
PoolAddEnd(c) ==
    /\ pool_pc[c] = "add_after"
    /\ pool_pc' = [pool_pc EXCEPT ![c] = "done"]
    /\ UNCHANGED <<pool_first, pool_limit, pool_items, pool_op, pool_arg, pool_oldest,
                   pool_err, pool_snap, pool_snapEv, pool_evicted, pool_calls,
              pool_added, pool_distinct>>
    /\ UNCHANGED notPool

\* remove(): item = self._items[id]; BEFORE_REMOVE
PoolRemoveBegin(c, id) ==
    /\ PoolCall(c, "remove", ContextItem(1, "d", id))
    /\ IF HasKey(pool_items, id)
       THEN /\ pool_pc' = [pool_pc EXCEPT ![c] = "remove_before"]
            /\ pool_err' = [pool_err EXCEPT ![c] = "None"]
       ELSE /\ pool_pc' = [pool_pc EXCEPT ![c] = "done"]
            /\ pool_err' = [pool_err EXCEPT ![c] = "KeyError"]
    /\ UNCHANGED <<pool_first, pool_limit, pool_items, pool_oldest, pool_evicted>>
    /\ UNCHANGED notPool

\* remove(): BEFORE_REMOVE hooks returned; del self._items[id]; AFTER_REMOVE
PoolRemoveDel(c) ==
    /\ pool_pc[c] = "remove_before"
    /\ IF HasKey(pool_items, pool_arg[c].id)
       THEN /\ pool_items' = DictDel(pool_items, pool_arg[c].id)
            /\ pool_first' = FirstDropped(pool_first, pool_arg[c].id)
            /\ pool_pc' = [pool_pc EXCEPT ![c] = "remove_after"]
            /\ UNCHANGED pool_err
       ELSE /\ pool_err' = [pool_err EXCEPT ![c] = "KeyError"]
            /\ pool_pc' = [pool_pc EXCEPT ![c] = "done"]
            /\ UNCHANGED <<pool_items, pool_first>>
    /\ UNCHANGED <<pool_limit, pool_op, pool_arg, pool_oldest, pool_snap,
                   pool_snapEv, pool_evicted, pool_calls, pool_added,
                   pool_distinct>>
    /\ UNCHANGED notPool

\* remove(): AFTER_REMOVE hooks returned
PoolRemoveEnd(c) ==
    /\ pool_pc[c] = "remove_after"
    /\ pool_pc' = [pool_pc EXCEPT ![c] = "done"]
    /\ UNCHANGED <<pool_first, pool_limit, pool_items, pool_op, pool_arg, pool_oldest,
                   pool_err, pool_snap, pool_snapEv, pool_evicted, pool_calls,
              pool_added, pool_distinct>>
    /\ UNCHANGED notPool

\* clear(): BEFORE_CLEAR
PoolClearBegin(c) ==
    /\ PoolCall(c, "clear", ContextItem(1, "d", NoId))
    /\ pool_pc' = [pool_pc EXCEPT ![c] = "clear_before"]
    /\ pool_err' = [pool_err EXCEPT ![c] = "None"]
    /\ UNCHANGED <<pool_first, pool_limit, pool_items, pool_oldest, pool_evicted>>
    /\ UNCHANGED notPool

\* clear(): BEFORE_CLEAR hooks returned; self._items.clear(); AFTER_CLEAR
PoolClearItems(c) ==
    /\ pool_pc[c] = "clear_before"
    /\ pool_items' = <<>>
    /\ pool_first' = <<>>
    /\ pool_pc' = [pool_pc EXCEPT ![c] = "clear_after"]
    /\ UNCHANGED <<pool_limit, pool_op, pool_arg, pool_oldest, pool_err,
                   pool_snap, pool_snapEv, pool_evicted, pool_calls, pool_added, pool_distinct>>
    /\ UNCHANGED notPool

\* clear(): AFTER_CLEAR hooks returned
PoolClearEnd(c) ==
    /\ pool_pc[c] = "clear_after"
    /\ pool_pc' = [pool_pc EXCEPT ![c] = "done"]
    /\ UNCHANGED <<pool_first, pool_limit, pool_items, pool_op, pool_arg, pool_oldest,
                   pool_err, pool_snap, pool_snapEv, pool_evicted, pool_calls,
              pool_added, pool_distinct>>
    /\ UNCHANGED notPool

PoolInit ==
    /\ pool_limit \in PoolLimits
    /\ pool_items = <<>>
    /\ pool_pc = [c \in Callers |-> "idle"]
    /\ pool_op = [c \in Callers |-> "none"]
    /\ pool_arg = [c \in Callers |-> ContextItem(1, "d", NoId)]
    /\ pool_oldest = [c \in Callers |-> NoId]
    /\ pool_err = [c \in Callers |-> "None"]
    /\ pool_snap = [c \in Callers |-> <<>>]
    /\ pool_snapEv = [c \in Callers |-> 0]
    /\ pool_first = <<>>
    /\ pool_evicted = <<>>
    /\ pool_calls = 0
    /\ pool_added = <<>>
    /\ pool_distinct = TRUE

\* ----------------------------------------------------------- ContextQueue
\* a deque without maxlen
DequeAppendUnbounded(items, x, maxlen) == Append(items, x)

\* deque(maxlen=limit).append(x): a full deque discards its leftmost item
DequeAppend(items, x, maxlen) ==
    IF Len(items) >= maxlen THEN Append(Tail(items), x) ELSE Append(items, x)

\* the argument lists of append(): up to MaxBatch ContextItems
Batches(made) == {QueueItems(made, n) : n \in 0..MaxBatch}

\* argument lists in which one value is not a ContextItem
BadBatches(made) ==
    UNION {{[items EXCEPT ![i] = NotAnItem] : i \in 1..Len(items)} :
              items \in Batches(made)}

\* append(): the  for item in items  loop from item i on, with the deque
\* holding q: items are appended without suspending until the deque is full,
\* then ON_EVICT is fired for the leftmost item (an await); after the last
\* item AFTER_APPEND is fired.  done is what the caller appended before.
QueueLoop(c, q, i, done) ==
    LET args == cq_args[c]
        k == Min(Len(args) - i + 1, cq_limit - Len(q))
        q2 == q \o SubSeq(args, i, i + k - 1)
        i2 == i + k
    IN  /\ cq_items' = q2
        /\ cq_appended' = cq_appended \o done \o SubSeq(args, i, i + k - 1)
        /\ cq_idx' = [cq_idx EXCEPT ![c] = i2]
        /\ IF i2 > Len(args)
           THEN /\ cq_pc' = [cq_pc EXCEPT ![c] = "append_after"]
                /\ UNCHANGED cq_evicted
           ELSE /\ cq_pc' = [cq_pc EXCEPT ![c] = "append_evict"]
                /\ cq_evicted' = Append(cq_evicted, q2[1])

QueueCall(c) ==
    /\ cq_pc[c] \in {"idle", "done"}
    /\ cq_calls < MaxQueueOps
    /\ cq_calls' = cq_calls + 1

\* append(): an argument is not a ContextItem
QueueAppendInvalid(c) ==
    /\ \E items \in BadBatches(cq_made) :
           \E i \in 1..Len(items) : ~IsContextItem(items[i])
    /\ QueueCall(c)
    /\ UNCHANGED cq_made
    /\ cq_err' = [cq_err EXCEPT ![c] = "TypeError"]
    /\ cq_pc' = [cq_pc EXCEPT ![c] = "done"]
    /\ UNCHANGED <<cq_limit, cq_items, cq_args, cq_idx, cq_evicted,
                   cq_appended, cq_cleared>>
    /\ UNCHANGED notQueue

\* append(): the type checks pass; BEFORE_APPEND is fired
QueueAppendBegin(c) ==
    /\ QueueCall(c)
    /\ \E items \in Batches(cq_made) :
        /\ \A i \in 1..Len(items) : IsContextItem(items[i])
        /\ cq_made' = cq_made + Len(items)
        /\ cq_args' = [cq_args EXCEPT ![c] = items]
    /\ cq_err' = [cq_err EXCEPT ![c] = "None"]
    /\ cq_idx' = [cq_idx EXCEPT ![c] = 1]
    /\ cq_pc' = [cq_pc EXCEPT ![c] = "append_before"]
    /\ UNCHANGED <<cq_limit, cq_items, cq_evicted, cq_appended, cq_cleared>>
    /\ UNCHANGED notQueue

\* append(): BEFORE_APPEND hooks returned; the loop starts
QueueAppendLoop(c) ==
    /\ cq_pc[c] = "append_before"
    /\ QueueLoop(c, cq_items, 1, <<>>)
    /\ UNCHANGED <<cq_limit, cq_args, cq_err, cq_cleared, cq_calls, cq_made>>
    /\ UNCHANGED notQueue

\* append(): ON_EVICT hooks returned; self._items.append(item); loop on
QueueAppendEvicted(c) ==
    /\ cq_pc[c] = "append_evict"
    /\ LET item == cq_args[c][cq_idx[c]]
       IN QueueLoop(c, DequeAppend(cq_items, item, cq_limit), cq_idx[c] + 1,
                    <<item>>)
    /\ UNCHANGED <<cq_limit, cq_args, cq_err, cq_cleared, cq_calls, cq_made>>
    /\ UNCHANGED notQueue

\* append(): AFTER_APPEND hooks returned; the frame and its locals are gone
QueueAppendEnd(c) ==
    /\ cq_pc[c] = "append_after"
    /\ cq_pc' = [cq_pc EXCEPT ![c] = "done"]
    /\ cq_args' = [cq_args EXCEPT ![c] = <<>>]
    /\ cq_idx' = [cq_idx EXCEPT ![c] = 1]
    /\ UNCHANGED <<cq_limit, cq_items, cq_err, cq_evicted, cq_appended,
                   cq_cleared, cq_calls, cq_made>>
    /\ UNCHANGED notQueue

\* clear(): BEFORE_CLEAR is fired
QueueClearBegin(c) ==
    /\ QueueCall(c)
    /\ cq_args' = [cq_args EXCEPT ![c] = <<>>]
    /\ cq_err' = [cq_err EXCEPT ![c] = "None"]
    /\ cq_cleared' = TRUE
    /\ cq_pc' = [cq_pc EXCEPT ![c] = "clear_before"]
    /\ UNCHANGED <<cq_limit, cq_items, cq_idx, cq_evicted, cq_appended,
                   cq_made>>
    /\ UNCHANGED notQueue

\* clear(): BEFORE_CLEAR hooks returned; self._items.clear(); AFTER_CLEAR
QueueClearItems(c) ==
    /\ cq_pc[c] = "clear_before"
    /\ cq_items' = <<>>
    /\ cq_pc' = [cq_pc EXCEPT ![c] = "clear_after"]
    /\ UNCHANGED <<cq_limit, cq_args, cq_idx, cq_err, cq_evicted, cq_appended,
                   cq_cleared, cq_calls, cq_made>>
    /\ UNCHANGED notQueue

\* clear(): AFTER_CLEAR hooks returned
QueueClearEnd(c) ==
    /\ cq_pc[c] = "clear_after"
    /\ cq_pc' = [cq_pc EXCEPT ![c] = "done"]
    /\ UNCHANGED <<cq_limit, cq_items, cq_args, cq_idx, cq_err, cq_evicted,
                   cq_appended, cq_cleared, cq_calls, cq_made>>
    /\ UNCHANGED notQueue

QueueInit ==
    /\ cq_limit \in QueueLimits
    /\ cq_items = <<>>
    /\ cq_pc = [c \in Callers |-> "idle"]
    /\ cq_args = [c \in Callers |-> <<>>]
    /\ cq_idx = [c \in Callers |-> 1]
    /\ cq_err = [c \in Callers |-> "None"]
    /\ cq_evicted = <<>>
    /\ cq_appended = <<>>
    /\ cq_cleared = FALSE
    /\ cq_calls = 0
    /\ cq_made = 0

QueueStep(c) ==
    \/ QueueAppendInvalid(c)
    \/ QueueAppendBegin(c)
    \/ QueueAppendLoop(c)
    \/ QueueAppendEvicted(c)
    \/ QueueAppendEnd(c)
    \/ QueueClearBegin(c)
    \/ QueueClearItems(c)
    \/ QueueClearEnd(c)

\* ------------------------------------------------------------------- Turn
\* exceptions a Tool body may raise
BodyExceptions == {"ValueError", "TimeoutError"}

\* except (asyncio.TimeoutError, TimeoutError): TurnTimeoutError derives
\* from TimeoutError, and asyncio.TimeoutError is TimeoutError
IsTimeoutError(e) == e \in {"TimeoutError", "TurnTimeoutError"}

\* except Exception: CancelledError derives from BaseException only
IsException(e) == e # "CancelledError"

NoMeta == [start_time |-> NoTime, end_time |-> NoTime, stop_reason |-> "None"]

NoOutput == [isNone |-> TRUE, value |-> <<>>]

Output(v) == [isNone |-> FALSE, value |-> v]

Fire(c, event) == t_events' = [t_events EXCEPT ![c] = Append(@, event)]

\* the finally clause of returning() and yielding()
Finally(c, raised) ==
    /\ t_meta' = [t_meta EXCEPT !.end_time = now]
    /\ t_running' = FALSE
    /\ t_raised' = [t_raised EXCEPT ![c] = raised]
    /\ t_pc' = [t_pc EXCEPT ![c] = "done"]

\* the except clauses of returning(): which handler takes exception e
ReturningHandler(e) ==
    IF IsTimeoutError(e) THEN "timeout"
    ELSE IF IsException(e) THEN "error"
    ELSE "none"

\* an exception e reached the except clauses of returning(): the stop reason
\* is recorded and ON_TIMEOUT or ON_ERROR is fired
ReturningExcept(c, e, events) ==
    /\ t_exc' = [t_exc EXCEPT ![c] = e]
    /\ IF ReturningHandler(e) = "timeout"
       THEN /\ t_meta' = [t_meta EXCEPT !.stop_reason = "timeout"]
            /\ t_events' = [t_events EXCEPT ![c] = @ \o events \o <<"on_timeout">>]
            /\ t_pc' = [t_pc EXCEPT ![c] = "r_on_timeout"]
       ELSE /\ t_meta' = [t_meta EXCEPT !.stop_reason = "error"]
            /\ t_events' = [t_events EXCEPT ![c] = @ \o events \o <<"on_error">>]
            /\ t_pc' = [t_pc EXCEPT ![c] = "r_on_error"]

\* an exception e reached the outer except clauses of yielding()
YieldingExcept(c, e) ==
    /\ t_exc' = [t_exc EXCEPT ![c] = e]
    /\ t_meta' = [t_meta EXCEPT !.stop_reason = "error"]
    /\ Fire(c, "on_error")
    /\ t_pc' = [t_pc EXCEPT ![c] = "y_on_error"]

\* a new call: the locals of the previous call of this caller are gone
TurnCall(c, method) ==
    /\ t_pc[c] \in {"idle", "done"}
    /\ t_calls < MaxTurnCalls
    /\ t_calls' = t_calls + 1
    /\ t_method' = [t_method EXCEPT ![c] = method]
    /\ t_exc' = [t_exc EXCEPT ![c] = "None"]
    /\ t_got' = [t_got EXCEPT ![c] = <<>>]
    /\ t_deadline' = [t_deadline EXCEPT ![c] = NoDeadline]
    /\ t_queue' = [t_queue EXCEPT ![c] = <<>>]
    /\ t_agg' = [t_agg EXCEPT ![c] = <<>>]
    /\ t_events' = [t_events EXCEPT ![c] = <<>>]
    /\ t_late' = [t_late EXCEPT ![c] = FALSE]
    /\ p_pc' = [p_pc EXCEPT ![c] = "none"]
    /\ p_exc' = [p_exc EXCEPT ![c] = "None"]
    /\ p_cancel' = [p_cancel EXCEPT ![c] = FALSE]
    /\ p_n' = [p_n EXCEPT ![c] = 0]

\* inspect.isasyncgenfunction(tool.fn)
IsAsyncGenFunction(kind) == kind = "asyncgen"

\* the tool decorator wraps a coroutine function in a Tool and an async
\* generator function in an AsyncGenTool
IsTool(kind) == ~IsAsyncGenFunction(kind)

IsAsyncGenTool(kind) == IsAsyncGenFunction(kind)

ReturningProtocolErrorNever(kind) == FALSE

\* the two tests of returning() that raise WrongRunMethodError
ReturningProtocolError(kind) == IsAsyncGenFunction(kind) \/ ~IsTool(kind)

\* the test of yielding() that raises WrongRunMethodError
YieldingProtocolError(kind) == ~IsAsyncGenFunction(kind)

\* safe_execution's wrapper of a coroutine function: the running flag is
\* tested when returning() is called, before the coroutine object exists
CallReturning(c) ==
    /\ TurnCall(c, "returning")
    /\ IF t_running
       THEN /\ t_raised' = [t_raised EXCEPT ![c] = "SafeExecutionError"]
            /\ t_pc' = [t_pc EXCEPT ![c] = "done"]
       ELSE /\ t_raised' = [t_raised EXCEPT ![c] = "None"]
            /\ t_pc' = [t_pc EXCEPT ![c] = "r_created"]
    /\ UNCHANGED <<now, t_timeout, t_running, t_meta, t_output, toolVars>>
    /\ UNCHANGED notTurn

\* the coroutine of returning() runs up to the BEFORE_RUN hooks
StartReturning(c) ==
    /\ t_pc[c] = "r_created"
    /\ t_running' = TRUE
    /\ t_meta' = [t_meta EXCEPT !.start_time = now]
    /\ Fire(c, "before_run")
    /\ t_pc' = [t_pc EXCEPT ![c] = "r_before_run"]
    /\ UNCHANGED <<now, t_timeout, t_output, t_calls, t_method, t_exc,
                   t_raised, t_got, t_deadline, t_queue, t_agg, t_late,
                   p_pc, p_exc, p_cancel, p_n, toolVars>>
    /\ UNCHANGED notTurn

\* BEFORE_RUN hooks returned: the protocol checks, then wait_for() starts
\* Tool.__call__, which fires BEFORE_INVOKE
ReturningInvoke(c) ==
    /\ t_pc[c] = "r_before_run"
    /\ IF ReturningProtocolError(tool_kind)
       THEN /\ ReturningExcept(c, "WrongRunMethodError", <<>>)
            /\ UNCHANGED <<t_deadline, p_pc>>
       ELSE /\ t_deadline' = [t_deadline EXCEPT ![c] = now + t_timeout]
            /\ Fire(c, "before_invoke")
            /\ p_pc' = [p_pc EXCEPT ![c] = "tc_before"]
            /\ t_pc' = [t_pc EXCEPT ![c] = "r_wait"]
            /\ UNCHANGED <<t_meta, t_exc>>
    /\ UNCHANGED <<now, t_timeout, t_running, t_output, t_calls, t_method,
                   t_raised, t_got, t_queue, t_agg, t_late, p_exc, p_cancel,
                   p_n, toolVars>>
    /\ UNCHANGED notTurn

\* the call is suspended inside wait_for() and its timer has not fired
InTime(c) == t_pc[c] = "r_wait" /\ now < t_deadline[c]

LockFree == tool_lock \in {"none", "free"}

AcquireNever(c) == tool_lock' = tool_lock

\* asyncio.Lock.acquire, or _NullLock
Acquire(c) == tool_lock' = IF tool_lock = "none" THEN "none" ELSE c

\* a lock that is kept on the way out
ReleaseKeepsLock(c) == tool_lock' = tool_lock

\* asyncio.Lock.release on leaving 'async with', for the call that holds it
Release(c) == tool_lock' = IF tool_lock = c THEN "free" ELSE tool_lock

unchangedByTool == <<now, t_timeout, t_running, t_calls, t_method, t_raised,
                     t_got, t_deadline, t_queue, t_agg, t_late, p_cancel,
                     p_n, tool_kind>>

\* Tool.__call__: BEFORE_INVOKE hooks returned (or the lock was released):
\* with the lock in hand the body starts, otherwise the call waits for it
ToolEnterBody(c) ==
    /\ InTime(c)
    /\ \/ p_pc[c] = "tc_before"
       \/ p_pc[c] = "tc_lockwait" /\ LockFree
    /\ IF LockFree
       THEN /\ Acquire(c)
            /\ Fire(c, "body")
            /\ p_pc' = [p_pc EXCEPT ![c] = "tc_body"]
       ELSE /\ p_pc' = [p_pc EXCEPT ![c] = "tc_lockwait"]
            /\ UNCHANGED <<tool_lock, t_events>>
    /\ UNCHANGED <<t_pc, t_meta, t_output, t_exc, p_exc>>
    /\ UNCHANGED unchangedByTool
    /\ UNCHANGED notTurn

\* the body returns: the lock is released, AFTER_INVOKE is fired
ToolBodyReturn(c) ==
    /\ InTime(c)
    /\ p_pc[c] = "tc_body"
    /\ Release(c)
    /\ Fire(c, "after_invoke")
    /\ p_pc' = [p_pc EXCEPT ![c] = "tc_after"]
    /\ UNCHANGED <<t_pc, t_meta, t_output, t_exc, p_exc>>
    /\ UNCHANGED unchangedByTool
    /\ UNCHANGED notTurn

\* the body raises: the lock is released, the Tool's ON_ERROR is fired
ToolBodyRaise(c) ==
    \E e \in BodyExceptions :
        /\ InTime(c)
        /\ p_pc[c] = "tc_body"
        /\ Release(c)
        /\ Fire(c, "tool_on_error")
        /\ p_exc' = [p_exc EXCEPT ![c] = e]
        /\ p_pc' = [p_pc EXCEPT ![c] = "tc_error"]
        /\ UNCHANGED <<t_pc, t_meta, t_output, t_exc>>
        /\ UNCHANGED unchangedByTool
        /\ UNCHANGED notTurn

\* AFTER_INVOKE hooks returned: wait_for() returns the result, returning()
\* stores it, records COMPLETED and fires AFTER_RUN
ReturningCompleted(c) ==
    /\ InTime(c)
    /\ p_pc[c] = "tc_after"
    /\ p_pc' = [p_pc EXCEPT ![c] = "returned"]
    /\ t_output' = Output(<<1>>)
    /\ t_meta' = [t_meta EXCEPT !.stop_reason = "completed"]
    /\ Fire(c, "after_run")
    /\ t_pc' = [t_pc EXCEPT ![c] = "r_after_run"]
    /\ UNCHANGED <<t_exc, p_exc, tool_lock>>
    /\ UNCHANGED unchangedByTool
    /\ UNCHANGED notTurn

\* the Tool's ON_ERROR hooks returned: the exception of the body leaves
\* Tool.__call__ and wait_for() and reaches the except clauses
ReturningBodyFailed(c) ==
    /\ InTime(c)
    /\ p_pc[c] = "tc_error"
    /\ p_pc' = [p_pc EXCEPT ![c] = "raised"]
    /\ ReturningExcept(c, p_exc[c], <<>>)
    /\ UNCHANGED <<t_output, p_exc, tool_lock>>
    /\ UNCHANGED unchangedByTool
    /\ UNCHANGED notTurn

\* the timer of wait_for() fires: the Tool call is cancelled where it is
\* suspended (a held lock is released on the way out) and TimeoutError
\* reaches the except clauses
ReturningTimeout(c) ==
    /\ t_pc[c] = "r_wait"
    /\ now >= t_deadline[c]
    /\ Release(c)
    /\ p_pc' = [p_pc EXCEPT ![c] = "cancelled"]
    /\ ReturningExcept(c, "TimeoutError", <<>>)
    /\ UNCHANGED <<t_output, p_exc>>
    /\ UNCHANGED unchangedByTool
    /\ UNCHANGED notTurn

\* AFTER_RUN, ON_TIMEOUT or ON_ERROR hooks returned: the output is returned
\* or the exception raised, through the finally clause
ReturningFinally(c) ==
    /\ t_pc[c] \in {"r_after_run", "r_on_timeout", "r_on_error"}
    /\ Finally(c, CASE t_pc[c] = "r_after_run" -> "None"
                    [] t_pc[c] = "r_on_timeout" -> "TurnTimeoutError"
                    [] t_pc[c] = "r_on_error" -> t_exc[c])
    /\ t_got' = [t_got EXCEPT ![c] =
                    IF t_pc[c] = "r_after_run" THEN t_output.value ELSE @]
    /\ UNCHANGED <<now, t_timeout, t_output, t_calls, t_method, t_exc,
                   t_deadline, t_queue, t_agg, t_events, t_late, p_pc, p_exc,
                   p_cancel, p_n, toolVars>>
    /\ UNCHANGED notTurn

\* yielding() is an async generator function: calling it only creates the
\* generator object
CallYielding(c) ==
    /\ TurnCall(c, "yielding")
    /\ t_raised' = [t_raised EXCEPT ![c] = "None"]
    /\ t_pc' = [t_pc EXCEPT ![c] = "y_created"]
    /\ UNCHANGED <<now, t_timeout, t_running, t_meta, t_output, toolVars>>
    /\ UNCHANGED notTurn

\* safe_execution's wrapper of an async generator function: the running
\* flag is tested at the first iteration, which then runs yielding() up to
\* the BEFORE_RUN hooks
StartYielding(c) ==
    /\ t_pc[c] = "y_created"
    /\ IF t_running
       THEN /\ t_raised' = [t_raised EXCEPT ![c] = "SafeExecutionError"]
            /\ t_pc' = [t_pc EXCEPT ![c] = "done"]
            /\ UNCHANGED <<t_running, t_meta, t_events>>
       ELSE /\ t_running' = TRUE
            /\ t_meta' = [t_meta EXCEPT !.start_time = now]
            /\ Fire(c, "before_run")
            /\ t_pc' = [t_pc EXCEPT ![c] = "y_before_run"]
            /\ UNCHANGED t_raised
    /\ UNCHANGED <<now, t_timeout, t_output, t_calls, t_method, t_exc, t_got,
                   t_deadline, t_queue, t_agg, t_late, p_pc, p_exc, p_cancel,
                   p_n, toolVars>>
    /\ UNCHANGED notTurn

\* BEFORE_RUN hooks returned: the protocol check, then the producer task is
\* created, the deadline fixed, and the first queue.get() waits
YieldingInvoke(c) ==
    /\ t_pc[c] = "y_before_run"
    /\ IF YieldingProtocolError(tool_kind)
       THEN /\ YieldingExcept(c, "WrongRunMethodError")
            /\ UNCHANGED <<t_deadline, p_pc>>
       ELSE /\ p_pc' = [p_pc EXCEPT ![c] = "created"]
            /\ t_deadline' = [t_deadline EXCEPT ![c] = now + t_timeout]
            /\ t_pc' = [t_pc EXCEPT ![c] = "y_wait"]
            /\ UNCHANGED <<t_meta, t_exc, t_events>>
    /\ UNCHANGED <<now, t_timeout, t_running, t_output, t_calls, t_method,
                   t_raised, t_got, t_queue, t_agg, t_late, p_exc, p_cancel,
                   p_n, toolVars>>
    /\ UNCHANGED notTurn

ProducerDone(c) == p_pc[c] \in {"done_ok", "done_exc", "done_cancelled"}

\* queue.get() delivers the head of the queue: a value is aggregated and
\* yielded to the caller; the sentinel ends the loop, and the producer,
\* which has ended, is awaited
Take(c) ==
    /\ t_queue' = [t_queue EXCEPT ![c] = Tail(@)]
    /\ IF Head(t_queue[c]) # QueueSentinel
       THEN /\ t_agg' = [t_agg EXCEPT ![c] = Append(@, Head(t_queue[c]))]
            /\ t_got' = [t_got EXCEPT ![c] = Append(@, Head(t_queue[c]))]
            /\ t_pc' = [t_pc EXCEPT ![c] = "y_yielded"]
            /\ UNCHANGED <<t_output, t_meta, t_events, t_exc>>
       ELSE IF p_pc[c] = "done_exc"
       THEN /\ YieldingExcept(c, p_exc[c])
            /\ UNCHANGED <<t_agg, t_got, t_output>>
       ELSE /\ t_output' = Output(t_agg[c])
            /\ t_meta' = [t_meta EXCEPT !.stop_reason = "completed"]
            /\ Fire(c, "after_run")
            /\ t_pc' = [t_pc EXCEPT ![c] = "y_after_run"]
            /\ UNCHANGED <<t_agg, t_got, t_exc>>

\* producer.cancel(), then await producer
CancelProducer(c) ==
    /\ p_cancel' = [p_cancel EXCEPT ![c] = ~ProducerDone(c)]
    /\ t_pc' = [t_pc EXCEPT ![c] = "y_cancel"]

\* the caller asks for the next value: the loop tests the deadline, then
\* takes what the queue holds or waits for it
YieldingResume(c) ==
    /\ t_pc[c] = "y_yielded"
    /\ IF t_deadline[c] - now <= 0
       THEN /\ CancelProducer(c)
            /\ UNCHANGED <<t_queue, t_agg, t_got, t_output, t_meta, t_events,
                           t_exc>>
       ELSE IF t_queue[c] # <<>>
       THEN /\ Take(c)
            /\ UNCHANGED p_cancel
       ELSE /\ t_pc' = [t_pc EXCEPT ![c] = "y_wait"]
            /\ UNCHANGED <<t_queue, t_agg, t_got, t_output, t_meta, t_events,
                           t_exc, p_cancel>>
    /\ UNCHANGED <<now, t_timeout, t_running, t_calls, t_method, t_raised,
                   t_deadline, t_late, p_pc, p_exc, p_n, toolVars>>
    /\ UNCHANGED notTurn

\* wait_for(queue.get()) returns
YieldingGet(c) ==
    /\ t_pc[c] = "y_wait"
    /\ t_queue[c] # <<>>
    /\ Take(c)
    /\ UNCHANGED <<now, t_timeout, t_running, t_calls, t_method, t_raised,
                   t_deadline, t_late, p_pc, p_exc, p_cancel, p_n, toolVars>>
    /\ UNCHANGED notTurn

\* the timer of wait_for(queue.get()) fires: the inner except clause
\* cancels the producer and awaits it
YieldingWaitTimeout(c) ==
    /\ t_pc[c] = "y_wait"
    /\ t_queue[c] = <<>>
    /\ now >= t_deadline[c]
    /\ CancelProducer(c)
    /\ UNCHANGED <<now, t_timeout, t_running, t_meta, t_output, t_calls,
                   t_method, t_exc, t_raised, t_got, t_deadline, t_queue,
                   t_agg, t_events, t_late, p_pc, p_exc, p_n, toolVars>>
    /\ UNCHANGED notTurn

AwaitReturnsAtOnce(c) == TRUE

\* 'await producer' resumes the caller only when the producer task has ended
AwaitReturns(c) == ProducerDone(c)

\* await producer ends after producer.cancel(): only CancelledError is
\* swallowed, an exception of the body goes on to the outer except clauses;
\* otherwise TIMEOUT is recorded and ON_TIMEOUT fired
YieldingProducerAwaited(c) ==
    /\ t_pc[c] = "y_cancel"
    /\ AwaitReturns(c)
    /\ IF p_pc[c] = "done_exc"
       THEN YieldingExcept(c, p_exc[c])
       ELSE /\ t_meta' = [t_meta EXCEPT !.stop_reason = "timeout"]
            /\ Fire(c, "on_timeout")
            /\ t_pc' = [t_pc EXCEPT ![c] = "y_on_timeout"]
            /\ t_exc' = [t_exc EXCEPT ![c] = "TurnTimeoutError"]
    /\ UNCHANGED <<now, t_timeout, t_running, t_output, t_calls, t_method,
                   t_raised, t_got, t_deadline, t_queue, t_agg, t_late, p_pc,
                   p_exc, p_cancel, p_n, toolVars>>
    /\ UNCHANGED notTurn

\* AFTER_RUN, ON_TIMEOUT or ON_ERROR hooks returned: the generator ends or
\* the exception is raised, through the finally clause
YieldingFinally(c) ==
    /\ t_pc[c] \in {"y_after_run", "y_on_timeout", "y_on_error"}
    /\ Finally(c, CASE t_pc[c] = "y_after_run" -> "None"
                    [] t_pc[c] = "y_on_timeout" -> "TurnTimeoutError"
                    [] t_pc[c] = "y_on_error" -> t_exc[c])
    /\ UNCHANGED <<now, t_timeout, t_output, t_calls, t_method, t_exc, t_got,
                   t_deadline, t_queue, t_agg, t_events, t_late, p_pc, p_exc,
                   p_cancel, p_n, toolVars>>
    /\ UNCHANGED notTurn

\* the producer task can take a step: it was not cancelled, and the
\* consumer is not waiting on a queue.get() whose timer is due
ProducerRuns(c) ==
    /\ t_method[c] = "yielding"
    /\ ~p_cancel[c]
    /\ ~(t_pc[c] = "y_wait" /\ t_queue[c] = <<>> /\ now >= t_deadline[c])

unchangedByProducer == <<now, t_timeout, t_running, t_meta, t_output, t_calls,
                         t_pc, t_method, t_exc, t_raised, t_got, t_deadline,
                         t_agg, t_late, tool_kind>>

\* produce() starts: it tests the class of the tool, then
\* AsyncGenTool.__call__ fires BEFORE_INVOKE
GenStart(c) ==
    /\ ProducerRuns(c)
    /\ p_pc[c] = "created"
    /\ IF ~IsAsyncGenTool(tool_kind)
       THEN /\ p_exc' = [p_exc EXCEPT ![c] = "WrongRunMethodError"]
            /\ t_queue' = [t_queue EXCEPT ![c] = Append(@, QueueSentinel)]
            /\ p_pc' = [p_pc EXCEPT ![c] = "done_exc"]
            /\ UNCHANGED t_events
       ELSE /\ Fire(c, "before_invoke")
            /\ p_pc' = [p_pc EXCEPT ![c] = "tc_before"]
            /\ UNCHANGED <<t_queue, p_exc>>
    /\ UNCHANGED <<p_cancel, p_n, tool_lock>>
    /\ UNCHANGED unchangedByProducer
    /\ UNCHANGED notTurn

\* BEFORE_INVOKE hooks returned (or the lock was released): with the lock
\* in hand the body starts, otherwise the producer waits for it
GenEnterBody(c) ==
    /\ ProducerRuns(c)
    /\ \/ p_pc[c] = "tc_before"
       \/ p_pc[c] = "tc_lockwait" /\ LockFree
    /\ IF LockFree
       THEN /\ Acquire(c)
            /\ Fire(c, "body")
            /\ p_pc' = [p_pc EXCEPT ![c] = "tc_body"]
       ELSE /\ p_pc' = [p_pc EXCEPT ![c] = "tc_lockwait"]
            /\ UNCHANGED <<tool_lock, t_events>>
    /\ UNCHANGED <<t_queue, p_exc, p_cancel, p_n>>
    /\ UNCHANGED unchangedByProducer
    /\ UNCHANGED notTurn

\* the body yields a value: ON_YIELD is fired, the lock still held
GenBodyYield(c) ==
    /\ ProducerRuns(c)
    /\ p_pc[c] = "tc_body"
    /\ p_n[c] < MaxYield
    /\ p_n' = [p_n EXCEPT ![c] = @ + 1]
    /\ Fire(c, "on_yield")
    /\ p_pc' = [p_pc EXCEPT ![c] = "tc_on_yield"]
    /\ UNCHANGED <<t_queue, p_exc, p_cancel, tool_lock>>
    /\ UNCHANGED unchangedByProducer
    /\ UNCHANGED notTurn

\* ON_YIELD hooks returned: the value goes through produce() into the
\* queue and the body is resumed
GenYieldDone(c) ==
    /\ ProducerRuns(c)
    /\ p_pc[c] = "tc_on_yield"
    /\ t_queue' = [t_queue EXCEPT ![c] = Append(@, p_n[c])]
    /\ p_pc' = [p_pc EXCEPT ![c] = "tc_body"]
    /\ UNCHANGED <<t_events, p_exc, p_cancel, p_n, tool_lock>>
    /\ UNCHANGED unchangedByProducer
    /\ UNCHANGED notTurn

\* the body returns: the lock is released, AFTER_INVOKE is fired
GenBodyReturn(c) ==
    /\ ProducerRuns(c)
    /\ p_pc[c] = "tc_body"
    /\ Release(c)
    /\ Fire(c, "after_invoke")
    /\ p_pc' = [p_pc EXCEPT ![c] = "tc_after"]
    /\ UNCHANGED <<t_queue, p_exc, p_cancel, p_n>>
    /\ UNCHANGED unchangedByProducer
    /\ UNCHANGED notTurn

\* the body raises: the lock is released, the Tool's ON_ERROR is fired
GenBodyRaise(c) ==
    \E e \in BodyExceptions :
        /\ ProducerRuns(c)
        /\ p_pc[c] = "tc_body"
        /\ Release(c)
        /\ Fire(c, "tool_on_error")
        /\ p_exc' = [p_exc EXCEPT ![c] = e]
        /\ p_pc' = [p_pc EXCEPT ![c] = "tc_error"]
        /\ UNCHANGED <<t_queue, p_cancel, p_n>>
        /\ UNCHANGED unchangedByProducer
        /\ UNCHANGED notTurn

\* the hooks fired last returned: AsyncGenTool.__call__ ends, the finally
\* clause of produce() puts the sentinel, the producer task ends
GenFinished(c) ==
    /\ t_method[c] = "yielding"
    /\ \/ ProducerRuns(c) /\ p_pc[c] \in {"tc_after", "tc_error"}
       \/ p_pc[c] = "tc_after_cancel"
    /\ t_queue' = [t_queue EXCEPT ![c] = Append(@, QueueSentinel)]
    /\ p_pc' = [p_pc EXCEPT ![c] =
                   CASE p_pc[c] = "tc_after" -> "done_ok"
                     [] p_pc[c] = "tc_error" -> "done_exc"
                     [] p_pc[c] = "tc_after_cancel" -> "done_cancelled"]
    /\ UNCHANGED <<t_events, p_exc, p_cancel, p_n, tool_lock>>
    /\ UNCHANGED unchangedByProducer
    /\ UNCHANGED notTurn

\* CancelledError is thrown into the producer where it is suspended. A task
\* that never ran ends at once. Inside the try of AsyncGenTool.__call__
\* (waiting for the lock, in the body, in ON_YIELD) the finally clause fires
\* AFTER_INVOKE; elsewhere the error goes straight to produce()'s finally
GenCancel(c) ==
    /\ t_method[c] = "yielding"
    /\ p_cancel[c]
    /\ p_pc[c] \in {"created", "tc_before", "tc_lockwait", "tc_body",
                    "tc_on_yield", "tc_after", "tc_error"}
    /\ Release(c)
    /\ IF p_pc[c] = "created"
       THEN /\ p_pc' = [p_pc EXCEPT ![c] = "done_cancelled"]
            /\ UNCHANGED <<t_queue, t_events>>
       ELSE IF p_pc[c] \in {"tc_lockwait", "tc_body", "tc_on_yield"}
       THEN /\ Fire(c, "after_invoke")
            /\ p_pc' = [p_pc EXCEPT ![c] = "tc_after_cancel"]
            /\ UNCHANGED t_queue
       ELSE /\ t_queue' = [t_queue EXCEPT ![c] = Append(@, QueueSentinel)]
            /\ p_pc' = [p_pc EXCEPT ![c] = "done_cancelled"]
            /\ UNCHANGED t_events
    /\ UNCHANGED <<p_exc, p_cancel, p_n>>
    /\ UNCHANGED unchangedByProducer
    /\ UNCHANGED notTurn

\* the body of the Tool call of c has ended, by return or by exception
BodyFinished(c) ==
    p_pc[c] \in {"tc_after", "tc_error", "returned", "raised", "done_ok",
                 "done_exc"}

\* time passes; a call whose deadline is reached with the body unfinished
\* is marked
Tick ==
    /\ now < MaxTime
    /\ now' = now + 1
    /\ t_late' = [c \in Callers |->
                    \/ t_late[c]
                    \/ /\ t_pc[c] # "done"
                       /\ t_deadline[c] = now + 1
                       /\ ~BodyFinished(c)]
    /\ UNCHANGED <<t_timeout, t_running, t_meta, t_output, t_calls, t_pc,
                   t_method, t_exc, t_raised, t_got, t_deadline, t_queue,
                   t_agg, t_events, p_pc, p_exc, p_cancel, p_n, toolVars>>
    /\ UNCHANGED notTurn

ToolKinds == {"coroutine", "asyncgen"}

ToolLocks == {"none", "free"}

Timeouts == 1..MaxTimeout

\* a Turn as constructed, over a registered Tool
TurnInit ==
    /\ now = 0
    /\ tool_kind \in ToolKinds
    /\ tool_lock \in ToolLocks
    /\ t_timeout \in Timeouts
    /\ t_running = FALSE
    /\ t_meta = NoMeta
    /\ t_output = NoOutput
    /\ t_calls = 0
    /\ t_pc = [c \in Callers |-> "idle"]
    /\ t_method = [c \in Callers |-> "None"]
    /\ t_exc = [c \in Callers |-> "None"]
    /\ t_raised = [c \in Callers |-> "None"]
    /\ t_got = [c \in Callers |-> <<>>]
    /\ t_deadline = [c \in Callers |-> NoDeadline]
    /\ t_queue = [c \in Callers |-> <<>>]
    /\ t_agg = [c \in Callers |-> <<>>]
    /\ t_events = [c \in Callers |-> <<>>]
    /\ t_late = [c \in Callers |-> FALSE]
    /\ p_pc = [c \in Callers |-> "none"]
    /\ p_exc = [c \in Callers |-> "None"]
    /\ p_cancel = [c \in Callers |-> FALSE]
    /\ p_n = [c \in Callers |-> 0]

TurnStep(c) ==
    \/ CallReturning(c)
    \/ StartReturning(c)
    \/ ReturningInvoke(c)
    \/ ToolEnterBody(c)
    \/ ToolBodyReturn(c)
    \/ ToolBodyRaise(c)
    \/ ReturningCompleted(c)
    \/ ReturningBodyFailed(c)
    \/ ReturningTimeout(c)
    \/ ReturningFinally(c)
    \/ CallYielding(c)
    \/ StartYielding(c)
    \/ YieldingInvoke(c)
    \/ YieldingResume(c)
    \/ YieldingGet(c)
    \/ YieldingWaitTimeout(c)
    \/ YieldingProducerAwaited(c)
    \/ YieldingFinally(c)
    \/ GenStart(c)
    \/ GenEnterBody(c)
    \/ GenBodyYield(c)
    \/ GenYieldDone(c)
    \/ GenBodyReturn(c)
    \/ GenBodyRaise(c)
    \/ GenFinished(c)
    \/ GenCancel(c)

\* ------------------------------------------------- Tool called directly
unchangedByInvoke == <<now, tool_kind, t_timeout, t_running, t_meta, t_output,
                       t_calls, t_pc, t_method, t_exc, t_raised, t_got,
                       t_deadline, t_queue, t_agg, t_late, p_cancel>>

\* tool(...): the call (for an AsyncGenTool, the first iteration of the
\* generator it returns) enters _invoke_context and fires BEFORE_INVOKE
InvokeCall(c) ==
    /\ p_pc[c] \in {"none", "returned", "raised"}
    /\ i_calls < MaxInvokes
    /\ i_calls' = i_calls + 1
    /\ p_pc' = [p_pc EXCEPT ![c] = "tc_before"]
    /\ p_exc' = [p_exc EXCEPT ![c] = "None"]
    /\ p_n' = [p_n EXCEPT ![c] = 0]
    /\ Fire(c, "before_invoke")
    /\ UNCHANGED tool_lock
    /\ UNCHANGED unchangedByInvoke
    /\ UNCHANGED notTool

\* BEFORE_INVOKE hooks returned (or the lock was released): with the lock
\* in hand the body starts, otherwise the call waits for it
InvokeEnterBody(c) ==
    /\ \/ p_pc[c] = "tc_before"
       \/ p_pc[c] = "tc_lockwait" /\ LockFree
    /\ IF LockFree
       THEN /\ Acquire(c)
            /\ Fire(c, "body")
            /\ p_pc' = [p_pc EXCEPT ![c] = "tc_body"]
       ELSE /\ p_pc' = [p_pc EXCEPT ![c] = "tc_lockwait"]
            /\ UNCHANGED <<tool_lock, t_events>>
    /\ UNCHANGED <<p_exc, p_n, i_calls>>
    /\ UNCHANGED unchangedByInvoke
    /\ UNCHANGED notTool

\* the body of an AsyncGenTool yields a value: ON_YIELD is fired inside
\* 'async with lock_ctx'
InvokeBodyYield(c) ==
    /\ IsAsyncGenTool(tool_kind)
    /\ p_pc[c] = "tc_body"
    /\ p_n[c] < MaxYield
    /\ p_n' = [p_n EXCEPT ![c] = @ + 1]
    /\ Fire(c, "on_yield")
    /\ p_pc' = [p_pc EXCEPT ![c] = "tc_on_yield"]
    /\ UNCHANGED <<tool_lock, p_exc, i_calls>>
    /\ UNCHANGED unchangedByInvoke
    /\ UNCHANGED notTool

\* ON_YIELD hooks returned: the value is yielded to the caller, the
\* generator is suspended inside 'async with lock_ctx'
InvokeYieldDone(c) ==
    /\ p_pc[c] = "tc_on_yield"
    /\ p_pc' = [p_pc EXCEPT ![c] = "tc_yielded"]
    /\ UNCHANGED <<tool_lock, t_events, p_exc, p_n, i_calls>>
    /\ UNCHANGED unchangedByInvoke
    /\ UNCHANGED notTool

\* the caller asks for the next value: the body is resumed
InvokeResume(c) ==
    /\ p_pc[c] = "tc_yielded"
    /\ p_pc' = [p_pc EXCEPT ![c] = "tc_body"]
    /\ UNCHANGED <<tool_lock, t_events, p_exc, p_n, i_calls>>
    /\ UNCHANGED unchangedByInvoke
    /\ UNCHANGED notTool

\* the body returns: the lock is released, AFTER_INVOKE is fired
InvokeBodyReturn(c) ==
    /\ p_pc[c] = "tc_body"
    /\ Release(c)
    /\ Fire(c, "after_invoke")
    /\ p_pc' = [p_pc EXCEPT ![c] = "tc_after"]
    /\ UNCHANGED <<p_exc, p_n, i_calls>>
    /\ UNCHANGED unchangedByInvoke
    /\ UNCHANGED notTool

\* the body raises: the lock is released, ON_ERROR is fired
InvokeBodyRaise(c) ==
    \E e \in BodyExceptions :
        /\ p_pc[c] = "tc_body"
        /\ Release(c)
        /\ Fire(c, "tool_on_error")
        /\ p_exc' = [p_exc EXCEPT ![c] = e]
        /\ p_pc' = [p_pc EXCEPT ![c] = "tc_error"]
        /\ UNCHANGED <<p_n, i_calls>>
        /\ UNCHANGED unchangedByInvoke
        /\ UNCHANGED notTool

\* the hooks fired last returned: the call returns or raises
InvokeEnd(c) ==
    /\ p_pc[c] \in {"tc_after", "tc_error"}
    /\ p_pc' = [p_pc EXCEPT ![c] = IF p_pc[c] = "tc_after" THEN "returned"
                                   ELSE "raised"]
    /\ UNCHANGED <<tool_lock, t_events, p_exc, p_n, i_calls>>
    /\ UNCHANGED unchangedByInvoke
    /\ UNCHANGED notTool

InvokeInit == i_calls = 0

InvokeNext ==
    \E c \in Callers :
        \/ InvokeCall(c)
        \/ InvokeEnterBody(c)
        \/ InvokeBodyYield(c)
        \/ InvokeYieldDone(c)
        \/ InvokeResume(c)
        \/ InvokeBodyReturn(c)
        \/ InvokeBodyRaise(c)
        \/ InvokeEnd(c)

\* ------------------------------------------------------------------ Agent
\* the registered Tools: a coroutine Tool, an async generator Tool, and one
\* more that the Agents under study are not always given
ToolNames == {"single", "stream", "other"}

NoTool == "None"

NoTurn == [turn |-> 0, tool |-> NoTool]

\* a Turn, as far as the Agent looks at it: its identity and its Tool
AgentTurn(id, tool) == [turn |-> id, tool |-> tool]

IsTurn(x) == "turn" \in DOMAIN x

\* inspect.isasyncgenfunction(turn.tool.fn)
IsStreaming(turn) == turn.tool = "stream"

PutCallers == {"run", "ext"}

PutRejectsNever(tools, turn) == FALSE

\* put(): the two tests that raise ValueError
PutRejects(tools, turn) == turn.tool = NoTool \/ turn.tool \notin tools

\* asyncio.Queue.put_nowait
PutNowait(queue, turn) == Append(queue, turn)

\* put(), called by c: a Turn without Tool or with a Tool that is not
\* accepted is refused at once; otherwise BEFORE_PUT is fired
AgentPutBegin(c, turn) ==
    /\ put_pc[c] \in {"idle", "done"}
    /\ put_turn' = [put_turn EXCEPT ![c] = turn]
    /\ put_kept' = [put_kept EXCEPT ![c] = (a_queue' = a_queue)]
    /\ IF PutRejects(a_tools, turn)
       THEN /\ put_raised' = [put_raised EXCEPT ![c] = "ValueError"]
            /\ put_log' = [put_log EXCEPT ![c] = <<>>]
            /\ put_pc' = [put_pc EXCEPT ![c] = "done"]
       ELSE /\ put_raised' = [put_raised EXCEPT ![c] = "None"]
            /\ put_log' = [put_log EXCEPT ![c] = <<"before_put">>]
            /\ put_pc' = [put_pc EXCEPT ![c] = "before_put"]

\* put() by an outside caller, with a Turn newly constructed
AgentPut(turn) ==
    /\ a_made < MaxTurns
    /\ turn.turn = a_made + 1
    /\ a_made' = a_made + 1
    /\ UNCHANGED <<a_tools, a_queue, a_current, a_running, a_paused, a_pc,
                   a_value, a_mark, a_n, a_fate, a_started, a_enq,
                   a_runs, a_raised, a_failed>>
    /\ AgentPutBegin("ext", turn)
    /\ UNCHANGED childVars
    /\ UNCHANGED notAgent

\* put(): BEFORE_PUT hooks returned; the Turn is enqueued, AFTER_PUT fired
AgentPutEnqueue(c) ==
    /\ put_pc[c] = "before_put"
    /\ a_queue' = PutNowait(a_queue, put_turn[c])
    /\ a_enq' = Append(a_enq, put_turn[c].turn)
    /\ put_log' = [put_log EXCEPT ![c] = @ \o <<"enqueued", "after_put">>]
    /\ put_pc' = [put_pc EXCEPT ![c] = "after_put"]
    /\ UNCHANGED <<a_tools, a_current, a_running, a_paused, a_pc, a_value,
                   a_mark, a_n, a_fate, a_started, a_made, a_runs,
                   a_raised, a_failed>>
    /\ put_kept' = [put_kept EXCEPT ![c] = FALSE]
    /\ UNCHANGED <<put_turn, put_raised>>
    /\ UNCHANGED childVars
    /\ UNCHANGED notAgent

\* put(): AFTER_PUT hooks returned
AgentPutEnd(c) ==
    /\ put_pc[c] = "after_put"
    /\ put_pc' = [put_pc EXCEPT ![c] = "done"]
    /\ UNCHANGED <<put_turn, put_log, put_raised, put_kept>>
    /\ UNCHANGED <<runVars, childVars>>
    /\ UNCHANGED notAgent

\* pause(): the gate is closed
AgentPause ==
    /\ ~a_paused
    /\ a_paused' = TRUE
    /\ UNCHANGED <<a_tools, a_queue, a_current, a_running, a_pc, a_value,
                   a_mark, a_n, a_fate, a_started, a_enq, a_made,
                   a_runs, a_raised, a_failed>>
    /\ UNCHANGED <<putVars, childVars>>
    /\ UNCHANGED notAgent

\* resume(): the gate is opened; Event.set() completes the future of a
\* loop waiting in Event.wait(), which then goes on whatever the gate is
\* when it runs
AgentResume ==
    /\ a_paused
    /\ a_paused' = FALSE
    /\ a_pc' = IF a_pc = "waiting" THEN "woken" ELSE a_pc
    /\ UNCHANGED <<a_tools, a_queue, a_current, a_running, a_value, a_mark,
                   a_n, a_fate, a_started, a_enq, a_made, a_runs,
                   a_raised, a_failed>>
    /\ UNCHANGED <<putVars, childVars>>
    /\ UNCHANGED notAgent

\* branch(name, tools=...): a new Agent over the given tools (the parent's
\* by default) receives a copy of the pending queue, not the current Turn
AgentBranch ==
    \E tools \in (SUBSET ToolNames) \ {{}} :
        /\ ~ch_made
        /\ ch_made' = TRUE
        /\ ch_tools' = tools
        /\ ch_queue' = a_queue
        /\ ch_current' = NoTurn
        /\ UNCHANGED <<runVars, putVars>>
        /\ UNCHANGED notAgent

\* from_dict(to_dict()): a new Agent over the same tool names receives the
\* recorded queue and current Turn
AgentFromDict ==
    /\ ~ch_made
    /\ ch_made' = TRUE
    /\ ch_tools' = a_tools
    /\ ch_queue' = a_queue
    /\ ch_current' = a_current
    /\ UNCHANGED <<runVars, putVars>>
    /\ UNCHANGED notAgent

NoFailure == [turn |-> 0, exc |-> "None", hook |-> "None", started |-> 0]

TurnFailures == {"TurnTimeoutError", "ValueError"}

\* the hook a Turn fires before it raises e
FailureHook(e) == IF IsTimeoutError(e) THEN "on_timeout" ELSE "on_error"

QueueGetLast(queue) == queue[Len(queue)]

\* asyncio.Queue.get_nowait
QueueGet(queue) == Head(queue)

QueueRest(queue, turn) ==
    IF turn = Head(queue) THEN Tail(queue) ELSE SubSeq(queue, 1, Len(queue) - 1)

\* _route_value(): where a value goes
RouteOf(value) ==
    IF IsContextItem(value)
    THEN IF value.id = NoId THEN "queue" ELSE "pool"
    ELSE IF IsTurn(value) THEN "put" ELSE "none"

ForwardsAll(value) == TRUE

\* run(): the test before 'yield (turn, value)'
Forwards(value) == ~(IsContextItem(value) \/ IsTurn(value))

\* what a Tool body may produce: a ContextItem with id (with or without
\* description), the next new ContextItem without id, a new Turn, a plain
\* value
Values(made, qmade) ==
    {ContextItem(1, "d", 1), ContextItem(1, "None", 1),
     QueueItems(qmade, 1)[1], NotAnItem}
    \cup {AgentTurn(made + 1, t) : t \in IF made < MaxTurns THEN ToolNames ELSE {}}

RunEndsAfterOneTurn(cur) == cur = NoTurn

\* run(): the negation of the while test
RunEnds(cur) == cur = NoTurn /\ a_queue = <<>>

LoopTopIgnoresGate(cur) ==
    IF RunEnds(cur)
    THEN /\ a_pc' = "done"
         /\ a_running' = FALSE
         /\ a_current' = NoTurn
    ELSE /\ a_pc' = "before_turn"
         /\ a_running' = TRUE
         /\ a_current' = cur

\* the loop test of run(), reached with the in-flight Turn cur: the
\* generator ends, or ON_PAUSE or BEFORE_TURN is fired
LoopTop(cur) ==
    IF RunEnds(cur)
    THEN /\ a_pc' = "done"
         /\ a_running' = FALSE
         /\ a_current' = NoTurn
    ELSE /\ a_pc' = IF a_paused THEN "on_pause" ELSE "before_turn"
         /\ a_running' = TRUE
         /\ a_current' = cur

RunFinallyKeepsTurn ==
    /\ a_running' = FALSE
    /\ a_current' = a_current

\* the outer finally of run()
RunFinally ==
    /\ a_running' = FALSE
    /\ a_current' = NoTurn

\* an exception leaves run() through its finally clauses
RunSwallows(e) ==
    /\ LoopTop(NoTurn)
    /\ a_raised' = a_raised

RunRaise(e) ==
    /\ a_pc' = "done"
    /\ RunFinally
    /\ a_raised' = e

\* run() is an async generator function: the call creates the generator
AgentRunCall ==
    /\ a_pc \in {"idle", "done"}
    /\ a_runs < MaxRuns
    /\ a_runs' = a_runs + 1
    /\ a_pc' = "created"
    /\ a_raised' = "None"
    /\ a_failed' = NoFailure
    /\ a_fate' = "none"
    /\ a_value' = NotAnItem
    /\ a_n' = 0
    /\ UNCHANGED <<a_tools, a_queue, a_current, a_running, a_paused, a_mark,
                   a_started, a_enq, a_made>>
    /\ UNCHANGED <<putVars, childVars>>
    /\ UNCHANGED notAgent

\* the first iteration: safe_execution's test, then run() up to its first
\* await
AgentRunStart ==
    /\ a_pc = "created"
    /\ IF a_running
       THEN /\ a_pc' = "done"
            /\ a_raised' = "SafeExecutionError"
            /\ UNCHANGED <<a_running, a_current>>
       ELSE /\ LoopTop(a_current)
            /\ UNCHANGED a_raised
    /\ UNCHANGED <<a_tools, a_queue, a_paused, a_value, a_mark, a_n, a_fate,
                   a_started, a_enq, a_made, a_runs, a_failed>>
    /\ UNCHANGED <<putVars, childVars>>
    /\ UNCHANGED notAgent

unchangedByGate == <<a_tools, a_queue, a_current, a_running, a_paused, a_value,
                     a_mark, a_n, a_fate, a_started, a_enq, a_made,
                     a_runs, a_raised, a_failed>>

\* ON_PAUSE hooks returned: Event.wait() returns at once if the gate is
\* open by now, and ON_RESUME is fired; otherwise the loop waits
AgentOnPauseDone ==
    /\ a_pc = "on_pause"
    /\ a_pc' = IF a_paused THEN "waiting" ELSE "on_resume"
    /\ UNCHANGED unchangedByGate
    /\ UNCHANGED <<putVars, childVars>>
    /\ UNCHANGED notAgent

\* the loop, woken by resume(), runs again: ON_RESUME is fired
AgentWaitDone ==
    /\ a_pc = "woken"
    /\ a_pc' = "on_resume"
    /\ UNCHANGED unchangedByGate
    /\ UNCHANGED <<putVars, childVars>>
    /\ UNCHANGED notAgent

\* ON_RESUME hooks returned: BEFORE_TURN is fired
AgentOnResumeDone ==
    /\ a_pc = "on_resume"
    /\ a_pc' = "before_turn"
    /\ UNCHANGED unchangedByGate
    /\ UNCHANGED <<putVars, childVars>>
    /\ UNCHANGED notAgent

\* BEFORE_TURN hooks returned: the in-flight Turn, else the head of the
\* queue, becomes the current Turn and is started
AgentStartTurn ==
    /\ a_pc = "before_turn"
    /\ LET turn == IF a_current # NoTurn THEN a_current ELSE QueueGet(a_queue)
       IN /\ a_current' = turn
          /\ a_queue' = IF a_current # NoTurn THEN a_queue
                        ELSE QueueRest(a_queue, turn)
          /\ a_started' = Append(a_started, turn.turn)
    /\ a_n' = 0
    /\ a_pc' = "turn"
    /\ UNCHANGED <<a_tools, a_running, a_paused, a_value, a_mark, a_fate,
                   a_enq, a_made, a_runs, a_raised, a_failed>>
    /\ UNCHANGED <<putVars, childVars>>
    /\ UNCHANGED notAgent

\* the Turn in flight produces a value: the output of returning(), or the
\* next value of yielding(), among those the bounds on Pool and Queue calls
\* leave room to route; a plain value needs no routing and ON_TURN_VALUE is
\* fired at once
AgentTurnValue ==
    \E value \in Values(a_made, cq_made) :
        /\ a_pc = "turn"
        /\ a_n < (IF IsStreaming(a_current) THEN MaxYield ELSE 1)
        /\ RouteOf(value) = "pool" => pool_calls < MaxPoolOps
        /\ RouteOf(value) = "queue" => cq_calls < MaxQueueOps
        /\ a_n' = a_n + 1
        /\ a_value' = value
        /\ a_made' = IF IsTurn(value) THEN a_made + 1 ELSE a_made
        /\ a_mark' = <<pool_calls, cq_calls>>
        /\ a_fate' = "none"
        /\ a_pc' = IF RouteOf(value) = "none" THEN "on_turn_value" ELSE "route"
        /\ UNCHANGED <<a_tools, a_queue, a_current, a_running, a_paused,
                       a_started, a_enq, a_runs, a_raised, a_failed>>
        /\ UNCHANGED <<putVars, childVars>>
        /\ UNCHANGED notAgent

\* the streaming Turn in flight ends: AFTER_TURN is fired
AgentTurnEnd ==
    /\ a_pc = "turn"
    /\ IsStreaming(a_current)
    /\ a_pc' = "after_turn"
    /\ UNCHANGED unchangedByGate
    /\ UNCHANGED <<putVars, childVars>>
    /\ UNCHANGED notAgent

\* the Turn in flight times out or its Tool raises: the Turn records the
\* stop reason and fires ON_TIMEOUT or ON_ERROR
AgentTurnFail ==
    \E e \in TurnFailures :
        /\ a_pc = "turn"
        /\ a_failed' = [turn |-> a_current.turn, exc |-> e,
                        hook |-> FailureHook(e), started |-> Len(a_started)]
        /\ a_pc' = "turn_failed"
        /\ UNCHANGED <<a_tools, a_queue, a_current, a_running, a_paused,
                       a_value, a_mark, a_n, a_fate, a_started,
                       a_enq, a_made, a_runs, a_raised>>
        /\ UNCHANGED <<putVars, childVars>>
        /\ UNCHANGED notAgent

\* the hooks of the failed Turn returned: its exception leaves run()
AgentTurnRaise ==
    /\ a_pc = "turn_failed"
    /\ RunRaise(a_failed.exc)
    /\ UNCHANGED <<a_tools, a_queue, a_paused, a_value, a_mark, a_n, a_fate,
                   a_started, a_enq, a_made, a_runs, a_failed>>
    /\ UNCHANGED <<putVars, childVars>>
    /\ UNCHANGED notAgent

\* _route_value(): a ContextItem with id goes to context_pool.add()
AgentRoutePool ==
    /\ a_pc = "route"
    /\ RouteOf(a_value) = "pool"
    /\ pool_calls = a_mark[1]
    /\ \/ PoolAddBegin(Main, a_value)
       \/ PoolAddInvalid(Main, a_value)

\* _route_value(): a ContextItem without id goes to context_queue.append()
AgentRouteQueue ==
    /\ a_pc = "route"
    /\ RouteOf(a_value) = "queue"
    /\ cq_calls = a_mark[2]
    /\ QueueAppendBegin(Main)
    /\ cq_args'[Main] = <<a_value>>

\* _route_value(): a Turn goes to put() of this Agent
AgentRoutePut ==
    /\ a_pc = "route"
    /\ RouteOf(a_value) = "put"
    /\ a_pc' = "routing"
    /\ UNCHANGED <<a_tools, a_queue, a_current, a_running, a_paused, a_value,
                   a_mark, a_n, a_fate, a_started, a_enq, a_made,
                   a_runs, a_raised, a_failed>>
    /\ AgentPutBegin("run", a_value)
    /\ UNCHANGED childVars
    /\ UNCHANGED notAgent

\* the call _route_value() made has ended, and how
RouteEnded ==
    CASE RouteOf(a_value) = "pool" ->
           a_pc = "route" /\ pool_calls = a_mark[1] + 1 /\ pool_pc[Main] = "done"
      [] RouteOf(a_value) = "queue" ->
           a_pc = "route" /\ cq_calls = a_mark[2] + 1 /\ cq_pc[Main] = "done"
      [] RouteOf(a_value) = "put" ->
           a_pc = "routing" /\ put_pc["run"] = "done"
      [] OTHER -> FALSE

RouteError ==
    CASE RouteOf(a_value) = "pool" -> pool_err[Main]
      [] RouteOf(a_value) = "queue" -> cq_err[Main]
      [] OTHER -> put_raised["run"]

\* _route_value() returned, and ON_TURN_VALUE is fired, or raised, and the
\* exception leaves run()
AgentRouted ==
    /\ a_pc \in {"route", "routing"}
    /\ RouteEnded
    /\ IF RouteError # "None"
       THEN /\ RunRaise(RouteError)
            /\ a_fate' = "raised"
       ELSE /\ a_pc' = "on_turn_value"
            /\ UNCHANGED <<a_running, a_current, a_raised, a_fate>>
    /\ a_mark' = <<0, 0>>
    /\ UNCHANGED <<a_tools, a_queue, a_paused, a_value, a_n,
                   a_started, a_enq, a_made, a_runs, a_failed>>
    /\ UNCHANGED <<putVars, childVars>>
    /\ UNCHANGED notAgent

ContinueToAfterTurn == a_pc' = "after_turn"

\* the iteration goes on after a value: the next value of a streaming
\* Turn is awaited; after the one value of returning() AFTER_TURN is fired
Continue == a_pc' = IF IsStreaming(a_current) THEN "turn" ELSE "after_turn"

\* ON_TURN_VALUE hooks returned: a value that was not routed is yielded to
\* the caller of run()
AgentValueDone ==
    /\ a_pc = "on_turn_value"
    /\ IF Forwards(a_value)
       THEN /\ a_fate' = "forwarded"
            /\ a_pc' = "yielded"
       ELSE /\ a_fate' = "consumed"
            /\ Continue
    /\ UNCHANGED <<a_tools, a_queue, a_current, a_running, a_paused, a_value,
                   a_mark, a_n, a_started, a_enq, a_made, a_runs, a_raised,
                   a_failed>>
    /\ UNCHANGED <<putVars, childVars>>
    /\ UNCHANGED notAgent

\* the caller of run() asks for the next value
AgentNextValue ==
    /\ a_pc = "yielded"
    /\ Continue
    /\ UNCHANGED unchangedByGate
    /\ UNCHANGED <<putVars, childVars>>
    /\ UNCHANGED notAgent

\* AFTER_TURN hooks returned: the current Turn is cleared, the loop test
\* is made again
AgentAfterTurnDone ==
    /\ a_pc = "after_turn"
    /\ LoopTop(NoTurn)
    /\ a_value' = NotAnItem
    /\ a_fate' = "none"
    /\ a_n' = 0
    /\ UNCHANGED <<a_tools, a_queue, a_paused, a_mark, a_started, a_enq,
                   a_made, a_runs, a_raised, a_failed>>
    /\ UNCHANGED <<putVars, childVars>>
    /\ UNCHANGED notAgent

AcceptedSets == (SUBSET ToolNames) \ {{}}

\* an Agent as constructed, with nothing on its queue
AgentInit ==
    /\ a_tools \in AcceptedSets
    /\ a_queue = <<>>
    /\ a_current = NoTurn
    /\ a_running = FALSE
    /\ a_paused = FALSE
    /\ a_pc = "idle"
    /\ a_value = NotAnItem
    /\ a_mark = <<0, 0>>
    /\ a_n = 0
    /\ a_fate = "none"
    /\ a_started = <<>>
    /\ a_enq = <<>>
    /\ a_made = 0
    /\ a_runs = 0
    /\ a_raised = "None"
    /\ a_failed = NoFailure
    /\ put_pc = [c \in PutCallers |-> "idle"]
    /\ put_turn = [c \in PutCallers |-> NoTurn]
    /\ put_log = [c \in PutCallers |-> <<>>]
    /\ put_raised = [c \in PutCallers |-> "None"]
    /\ put_kept = [c \in PutCallers |-> TRUE]
    /\ ch_made = FALSE
    /\ ch_tools = {}
    /\ ch_queue = <<>>
    /\ ch_current = NoTurn

\* the Tool of a Turn handed to put(): any registered Tool, or none
PutTools == ToolNames \cup {NoTool}

AgentNext ==
    \/ \E tool \in PutTools : AgentPut(AgentTurn(a_made + 1, tool))
    \/ \E c \in PutCallers : AgentPutEnqueue(c)
    \/ \E c \in PutCallers : AgentPutEnd(c)
    \/ AgentPause
    \/ AgentResume
    \/ AgentRunCall
    \/ AgentRunStart
    \/ AgentOnPauseDone
    \/ AgentWaitDone
    \/ AgentOnResumeDone
    \/ AgentStartTurn
    \/ AgentTurnValue
    \/ AgentTurnEnd
    \/ AgentTurnFail
    \/ AgentTurnRaise
    \/ AgentRoutePool
    \/ AgentRouteQueue
    \/ AgentRoutePut
    \/ AgentRouted
    \/ AgentValueDone
    \/ AgentNextValue
    \/ AgentAfterTurnDone
    \/ PoolAddInsert(Main)
    \/ PoolAddEnd(Main)
    \/ QueueAppendLoop(Main)
    \/ QueueAppendEvicted(Main)
    \/ QueueAppendEnd(Main)

\* the steps of run() and of the calls of put() under way while the pause gate
\* stays open and no Turn times out or raises
DrainSteps ==
    \/ \E c \in PutCallers : AgentPutEnqueue(c)
    \/ \E c \in PutCallers : AgentPutEnd(c)
    \/ AgentRunStart
    \/ AgentStartTurn
    \/ AgentTurnValue
    \/ AgentTurnEnd
    \/ AgentRoutePool
    \/ AgentRouteQueue
    \/ AgentRoutePut
    \/ AgentRouted
    \/ AgentValueDone
    \/ AgentNextValue
    \/ AgentAfterTurnDone
    \/ PoolAddInsert(Main)
    \/ PoolAddEnd(Main)
    \/ QueueAppendLoop(Main)
    \/ QueueAppendEvicted(Main)
    \/ QueueAppendEnd(Main)

DrainNext ==
    \/ \E tool \in PutTools : AgentPut(AgentTurn(a_made + 1, tool))
    \/ AgentRunCall
    \/ DrainSteps

\* an Agent with Turns put on it, the first of them perhaps started, is
\* branched or rebuilt from its dictionary
CopyNext ==
    \/ \E tool \in PutTools : AgentPut(AgentTurn(a_made + 1, tool))
    \/ AgentPutEnqueue("ext")
    \/ AgentPutEnd("ext")
    \/ AgentRunCall
    \/ AgentRunStart
    \/ AgentStartTurn
    \/ AgentBranch
    \/ AgentFromDict

\* ------------------------------------------------------------------ hooks
\* A hook is the wrapper hook() builds around a coroutine function.  With
\* lock=True the wrapper owns an asyncio.Lock and runs the function inside
\* "async with" on it; otherwise it runs it inside the null lock.

HookIds == {"h1", "h2"}
HookTasks == {"a", "b", "c"}
NoHook == "none"

HookAcquireNever(c, h) == hk_lock' = hk_lock

\* async with lock_ctx: the asyncio.Lock is taken when free, the null lock
\* always
HookAcquire(c, h) ==
    IF hk_flag[h]
    THEN /\ hk_lock[h] = "free"
         /\ hk_lock' = [hk_lock EXCEPT ![h] = c]
    ELSE hk_lock' = hk_lock

HookRelease(c, h) ==
    hk_lock' = IF hk_flag[h] THEN [hk_lock EXCEPT ![h] = "free"] ELSE hk_lock

unchangedByHook ==
    <<coreVars, lateVars, fireVars, regVars, branchVars, forkVars, serVars,
      attrVars>>

\* wrapper(*args, **kwargs) is called: kwargs are merged, the lock context
\* is chosen and entered
HookCall(c, h) ==
    /\ hk_pc[c] = "idle"
    /\ hk_pc' = [hk_pc EXCEPT ![c] = "enter"]
    /\ hk_of' = [hk_of EXCEPT ![c] = h]
    /\ UNCHANGED <<hk_flag, hk_lock>>
    /\ UNCHANGED unchangedByHook

\* the lock context is entered, start_time is set and fn is awaited
HookEnterBody(c) ==
    /\ hk_pc[c] = "enter"
    /\ HookAcquire(c, hk_of[c])
    /\ hk_pc' = [hk_pc EXCEPT ![c] = "body"]
    /\ UNCHANGED <<hk_flag, hk_of>>
    /\ UNCHANGED unchangedByHook

\* fn returns or raises: end_time is set and the lock context is left
HookBodyDone(c) ==
    /\ hk_pc[c] = "body"
    /\ HookRelease(c, hk_of[c])
    /\ hk_pc' = [hk_pc EXCEPT ![c] = "idle"]
    /\ hk_of' = [hk_of EXCEPT ![c] = NoHook]
    /\ UNCHANGED hk_flag
    /\ UNCHANGED unchangedByHook

HookInit ==
    /\ hk_lock = [h \in HookIds |-> "free"]
    /\ hk_pc = [c \in HookTasks |-> "idle"]
    /\ hk_of = [c \in HookTasks |-> NoHook]

HookNext ==
    \E c \in HookTasks :
        \/ \E h \in HookIds : HookCall(c, h)
        \/ HookEnterBody(c)
        \/ HookBodyDone(c)

\* ------------------------------------------------------------- registries
\* BaseRegistry keeps name -> object.  h1 and h3 carry the same name.

Registries == {"Tool", "Agent", "Hook"}
Objects == {"h1", "h2", "h3"}
Names == {"n", "m"}
NoObject == "none"
NoCall == [kind |-> "none", item |-> NoObject, existing |-> NoObject,
           raised |-> "none", kept |-> TRUE]

\* getattr(item, cls._key_attr)
NameOf(o) == IF o = "h2" THEN "m" ELSE "n"

\* _allow_reregister: False in BaseRegistry, True in HookRegistry only
AllowReregister(k) == k = "Hook"

RegisterRaisesNever(k, map, item) == FALSE

\* BaseRegistry.register raises ValueError when the name is taken, unless
\* the registry allows re-registering and it is taken by item itself
RegisterRaises(k, map, item) ==
    /\ map[NameOf(item)] # NoObject
    /\ ~ (AllowReregister(k) /\ map[NameOf(item)] = item)

\* cls._registry after register(item)
Registered(k, map, item) ==
    IF RegisterRaises(k, map, item) \/ map[NameOf(item)] # NoObject
    THEN map
    ELSE [map EXCEPT ![NameOf(item)] = item]

unchangedByRegistry ==
    <<coreVars, lateVars, hookVars, fireVars, branchVars, forkVars, serVars,
      attrVars>>

RegistryRegister(k, item) ==
    /\ r_map' = [r_map EXCEPT ![k] = Registered(k, r_map[k], item)]
    /\ r_last' = [kind |-> k, item |-> item,
                  existing |-> r_map[k][NameOf(item)],
                  raised |-> IF RegisterRaises(k, r_map[k], item)
                             THEN "ValueError" ELSE "none",
                  kept |-> (r_map'[k] = r_map[k])]
    /\ UNCHANGED unchangedByRegistry

\* BaseRegistry.clear
RegistryClear(k) ==
    /\ r_map[k] # [n \in Names |-> NoObject]
    /\ r_map' = [r_map EXCEPT ![k] = [n \in Names |-> NoObject]]
    /\ r_last' = NoCall
    /\ UNCHANGED unchangedByRegistry

RegistryInit ==
    /\ r_map = [k \in Registries |-> [n \in Names |-> NoObject]]
    /\ r_last = NoCall

RegistryNext ==
    \E k \in Registries :
        \/ \E item \in Objects : RegistryRegister(k, item)
        \/ RegistryClear(k)

\* ------------------------------------------------------------------- fire
\* HookRegistry.fire(hook_type, instance_hooks, _source_tags=...) with the
\* hooks h1 and h2.  .tags is None or a set of tags; .type is one event
\* type or a tuple of them, kept here as the set of its members.

Tags == {"x", "y"}
EventTypes == {"A", "B"}
FiredType == "A"
NoTags == <<>>
TagSet(s) == <<s>>
HookTags == {NoTags} \cup {TagSet(s) : s \in SUBSET Tags}
HookTypes == (SUBSET EventTypes) \ {{}}

\* sequences over S of length at most n
SeqsUpTo(S, n) == UNION {[1..k -> S] : k \in 0..n}

RECURSIVE Filter(_, _)
\* HookRegistry.get_by_type(hook_type, hooks)
Filter(hooks, type) ==
    IF hooks = <<>> THEN <<>>
    ELSE IF type \in h_type[Head(hooks)]
         THEN <<Head(hooks)>> \o Filter(Tail(hooks), type)
         ELSE Filter(Tail(hooks), type)

AlreadyFiredNever(h, fired) == FALSE

\* id(h) in fired_ids
AlreadyFired(h, fired) == h \in fired

TagsAllowAlways(tags, source) == TRUE

\* hook_tags is None or (_source_tags and hook_tags & _source_tags)
TagsAllow(tags, source) ==
    \/ tags = NoTags
    \/ /\ tags # NoTags
       /\ source # {}
       /\ tags[1] \cap source # {}

unchangedByFire ==
    <<coreVars, lateVars, hookVars, branchVars, forkVars, serVars, attrVars>>

\* HookRegistry.register_global(hook): register it by name, then append it
\* to _global_hooks; nothing is appended when register() raises
RegisterGlobal(h) ==
    /\ Len(g_hooks) < MaxHooks
    /\ ~ RegisterRaises("Hook", r_map["Hook"], h)
    /\ r_map' = [r_map EXCEPT !["Hook"] = Registered("Hook", r_map["Hook"], h)]
    /\ g_hooks' = Append(g_hooks, h)
    /\ UNCHANGED <<r_last, h_type, h_tags, f_pc, f_src, f_args, f_i, f_snap,
                   f_j, f_fired, f_calls>>
    /\ UNCHANGED f_exc
    /\ UNCHANGED unchangedByFire

\* fire() is called with the instance hooks of the fired type, as its
\* callers pass them: get_by_type(hook_type, self.hooks).  fire() keeps
\* nothing from one call to the next, so one call is followed
FireCall(hooks, source) ==
    /\ f_pc = "idle"
    /\ f_pc' = "instance"
    /\ f_src' = source
    /\ f_args' = Filter(hooks, FiredType)
    /\ f_i' = 0
    /\ f_snap' = <<>>
    /\ f_j' = 0
    /\ f_fired' = {}
    /\ f_calls' = [h \in HookIds |-> 0]
    /\ UNCHANGED <<h_type, h_tags, g_hooks, regVars>>
    /\ f_exc' = NoHook
    /\ UNCHANGED unchangedByFire

\* for h in instance_hooks: await h(...); fired_ids.add(id(h))
FireInstance ==
    /\ f_pc = "instance"
    /\ f_i < Len(f_args)
    /\ f_i' = f_i + 1
    /\ f_calls' = [f_calls EXCEPT ![f_args[f_i + 1]] = @ + 1]
    /\ f_fired' = f_fired \cup {f_args[f_i + 1]}
    /\ UNCHANGED <<h_type, h_tags, g_hooks, f_pc, f_src, f_args, f_snap, f_j,
                   regVars>>
    /\ UNCHANGED f_exc
    /\ UNCHANGED unchangedByFire

\* the first loop ends; the second one runs over get_global_by_type()
FireGlobals ==
    /\ f_pc = "instance"
    /\ f_i = Len(f_args)
    /\ f_pc' = "global"
    /\ f_snap' = Filter(g_hooks, FiredType)
    /\ UNCHANGED <<h_type, h_tags, g_hooks, f_src, f_args, f_i, f_j, f_fired,
                   f_calls, regVars>>
    /\ UNCHANGED f_exc
    /\ UNCHANGED unchangedByFire

\* one turn of the second loop: the hook is awaited unless it has fired
\* as an instance hook or its tags keep it from this source
FireGlobal ==
    /\ f_pc = "global"
    /\ f_j < Len(f_snap)
    /\ f_j' = f_j + 1
    /\ LET h == f_snap[f_j + 1]
       IN f_calls' = IF /\ ~ AlreadyFired(h, f_fired)
                        /\ TagsAllow(h_tags[h], f_src)
                     THEN [f_calls EXCEPT ![h] = @ + 1]
                     ELSE f_calls
    /\ UNCHANGED <<h_type, h_tags, g_hooks, f_pc, f_src, f_args, f_i, f_snap,
                   f_fired, regVars>>
    /\ UNCHANGED f_exc
    /\ UNCHANGED unchangedByFire

\* fire() returns
FireEnd ==
    /\ f_pc = "global"
    /\ f_j = Len(f_snap)
    /\ f_pc' = "done"
    /\ UNCHANGED <<h_type, h_tags, g_hooks, f_src, f_args, f_i, f_snap, f_j,
                   f_fired, f_calls, regVars>>
    /\ UNCHANGED f_exc
    /\ UNCHANGED unchangedByFire

AfterRaiseGoesOn(pc) == pc

\* an exception raised by an awaited hook is not caught in fire(): it ends
\* the loop and the call
AfterRaise(pc) == "raised"

\* the instance hook awaited raises
FireInstanceRaises ==
    /\ f_pc = "instance"
    /\ f_i < Len(f_args)
    /\ f_i' = f_i + 1
    /\ f_calls' = [f_calls EXCEPT ![f_args[f_i + 1]] = @ + 1]
    /\ f_exc' = f_args[f_i + 1]
    /\ f_pc' = AfterRaise(f_pc)
    /\ UNCHANGED <<h_type, h_tags, g_hooks, f_src, f_args, f_snap, f_j,
                   f_fired, regVars>>
    /\ UNCHANGED unchangedByFire

\* the global hook awaited raises
FireGlobalRaises ==
    /\ f_pc = "global"
    /\ f_j < Len(f_snap)
    /\ ~ AlreadyFired(f_snap[f_j + 1], f_fired)
    /\ TagsAllow(h_tags[f_snap[f_j + 1]], f_src)
    /\ f_j' = f_j + 1
    /\ f_calls' = [f_calls EXCEPT ![f_snap[f_j + 1]] = @ + 1]
    /\ f_exc' = f_snap[f_j + 1]
    /\ f_pc' = AfterRaise(f_pc)
    /\ UNCHANGED <<h_type, h_tags, g_hooks, f_src, f_args, f_i, f_snap,
                   f_fired, regVars>>
    /\ UNCHANGED unchangedByFire

FireInit ==
    /\ g_hooks = <<>>
    /\ f_pc = "idle"
    /\ f_src = {}
    /\ f_args = <<>>
    /\ f_i = 0
    /\ f_snap = <<>>
    /\ f_j = 0
    /\ f_fired = {}
    /\ f_calls = [h \in HookIds |-> 0]
    /\ f_exc = NoHook

FireNext ==
    \/ \E h \in HookIds : RegisterGlobal(h)
    \/ \E hooks \in SeqsUpTo(HookIds, MaxHooks), source \in SUBSET Tags :
           FireCall(hooks, source)
    \/ FireInstance
    \/ FireGlobals
    \/ FireGlobal
    \/ FireEnd

\* fire() over hooks any of which may raise
FireRaiseNext ==
    \/ FireNext
    \/ FireInstanceRaises
    \/ FireGlobalRaises

\* ---------------------------------------------------------- Agent.branch
\* A parent Agent and the child branch() makes from it.  A Turn is an
\* object: the queues hold references to it, and its recorded state (the
\* running flag, the stop reason, how often it was started) lives in b_turn.

Agents == {"parent", "child"}
Other(g) == IF g = "parent" THEN "child" ELSE "parent"
TurnObjects == 1..MaxTurns
NewTurn == [running |-> FALSE, stop |-> "None", starts |-> 0]
OutputKinds == {"pool", "queue", "plain"}
AgentQueueLimit == 10

unchangedByBranch ==
    <<coreVars, lateVars, hookVars, fireVars, regVars, forkVars, serVars,
      attrVars>>

\* put(turn) with a Turn just constructed for a Tool the Agent accepts
BranchPut(g) ==
    /\ g = "child" => b_made
    /\ b_n < MaxTurns
    /\ b_n' = b_n + 1
    /\ b_queue' = [b_queue EXCEPT ![g] = Append(@, b_n + 1)]
    /\ b_last' = g
    /\ UNCHANGED <<b_made, b_cur, b_turn, b_pool, b_cq>>
    /\ UNCHANGED unchangedByBranch

\* branch(name): the child gets branch() copies of the Pool and the Queue
\* and every Turn of _queue_snapshot(), put on its own queue
BranchMake ==
    /\ ~ b_made
    /\ b_made' = TRUE
    /\ b_queue' = [b_queue EXCEPT !["child"] = b_queue["parent"]]
    /\ b_pool' = [b_pool EXCEPT !["child"] = b_pool["parent"]]
    /\ b_cq' = [b_cq EXCEPT !["child"] = b_cq["parent"]]
    /\ b_last' = "parent"
    /\ UNCHANGED <<b_cur, b_turn, b_n>>
    /\ UNCHANGED unchangedByBranch

\* run() takes the next Turn and calls returning()/yielding() on it: a
\* Turn that is running refuses with SafeExecutionError, which ends run();
\* otherwise the Turn is marked running and its start time is set
BranchStartTurn(g) ==
    /\ g = "child" => b_made
    /\ b_cur[g] = NoId
    /\ b_queue[g] # <<>>
    /\ b_queue' = [b_queue EXCEPT ![g] = Tail(@)]
    /\ LET t == Head(b_queue[g])
       IN IF b_turn[t].running
          THEN UNCHANGED <<b_cur, b_turn>>
          ELSE /\ b_cur' = [b_cur EXCEPT ![g] = t]
               /\ b_turn' = [b_turn EXCEPT ![t].running = TRUE,
                                            ![t].starts = @ + 1]
    /\ b_last' = g
    /\ UNCHANGED <<b_made, b_pool, b_cq, b_n>>
    /\ UNCHANGED unchangedByBranch

\* the Turn completes and its output is routed: a ContextItem with an id
\* to the Agent's Pool, one without to its Queue, any other value forwarded
BranchTurnEnd(g, kind) ==
    /\ b_cur[g] # NoId
    /\ LET t == b_cur[g]
       IN /\ b_turn' = [b_turn EXCEPT ![t].running = FALSE,
                                       ![t].stop = "COMPLETED"]
          /\ b_pool' = IF kind = "pool" /\ t \notin b_pool[g]
                       THEN [b_pool EXCEPT ![g] = @ \cup {t}]
                       ELSE b_pool
          /\ b_cq' = IF kind = "queue"
                     THEN [b_cq EXCEPT
                               ![g] = DequeAppend(@, t, AgentQueueLimit)]
                     ELSE b_cq
    /\ b_cur' = [b_cur EXCEPT ![g] = NoId]
    /\ b_last' = g
    /\ UNCHANGED <<b_made, b_queue, b_n>>
    /\ UNCHANGED unchangedByBranch

BranchInit ==
    /\ b_made = FALSE
    /\ b_queue = [g \in Agents |-> <<>>]
    /\ b_cur = [g \in Agents |-> NoId]
    /\ b_turn = [t \in TurnObjects |-> NewTurn]
    /\ b_pool = [g \in Agents |-> {}]
    /\ b_cq = [g \in Agents |-> <<>>]
    /\ b_n = 0
    /\ b_last = "parent"

BranchNext ==
    \/ BranchMake
    \/ \E g \in Agents :
           \/ BranchPut(g)
           \/ BranchStartTurn(g)
           \/ \E kind \in OutputKinds : BranchTurnEnd(g, kind)

\* ------------------------------------------- Pool.branch and Queue.branch
\* One container, Pool or Queue, and the child branch() makes from it.  The
\* parent is used as in the specifications above; the child by one task
\* that awaits every call.

ContainerKinds == {"pool", "queue"}
InheritLimit == -1

RECURSIVE PoolCopy(_, _, _)
\* the loop of ContextPool.branch: each item of the parent is inserted in
\* the child, the oldest entry of a full child being deleted first
PoolCopy(items, child, limit) ==
    IF items = <<>> THEN child
    ELSE LET item == Head(items)
             kept == IF NeedsEvict(limit, child, item)
                     THEN DictDel(child, OldestKey(child))
                     ELSE child
         IN PoolCopy(Tail(items), DictSet(kept, item), limit)

RECURSIVE QueueCopy(_, _, _)
\* the loop of ContextQueue.branch: each item is appended to the child deque
QueueCopy(items, child, limit) ==
    IF items = <<>> THEN child
    ELSE QueueCopy(Tail(items), DequeAppend(child, Head(items), limit), limit)

unchangedByFork ==
    <<coreVars, lateVars, hookVars, fireVars, regVars, branchVars, serVars,
      attrVars>>

\* pool.branch() or pool.branch(limit)
PoolBranch(limit) ==
    /\ bk_kind = "pool"
    /\ ~ bc_made
    /\ bc_made' = TRUE
    /\ bc_limit' = IF limit = InheritLimit THEN pool_limit ELSE limit
    /\ bc_items' = PoolCopy(pool_items, <<>>, bc_limit')
    /\ UNCHANGED bk_kind
    /\ UNCHANGED unchangedByFork

\* queue.branch() or queue.branch(limit)
QueueBranch(limit) ==
    /\ bk_kind = "queue"
    /\ ~ bc_made
    /\ bc_made' = TRUE
    /\ bc_limit' = IF limit = InheritLimit THEN cq_limit ELSE limit
    /\ bc_items' = QueueCopy(cq_items, <<>>, bc_limit')
    /\ UNCHANGED bk_kind
    /\ UNCHANGED unchangedByFork

\* await child.add(item)
ChildAdd(item) ==
    /\ bk_kind = "pool" /\ bc_made
    /\ bc_items' =
           DictSet(IF NeedsEvict(bc_limit, bc_items, item)
                   THEN DictDel(bc_items, OldestKey(bc_items))
                   ELSE bc_items,
                   item)
    /\ UNCHANGED <<bk_kind, bc_made, bc_limit>>
    /\ UNCHANGED unchangedByFork

\* await child.remove(id)
ChildRemove(id) ==
    /\ bk_kind = "pool" /\ bc_made
    /\ HasKey(bc_items, id)
    /\ bc_items' = DictDel(bc_items, id)
    /\ UNCHANGED <<bk_kind, bc_made, bc_limit>>
    /\ UNCHANGED unchangedByFork

\* await child.append(item)
ChildAppend(item) ==
    /\ bk_kind = "queue" /\ bc_made
    /\ bc_items' = DequeAppend(bc_items, item, bc_limit)
    /\ UNCHANGED <<bk_kind, bc_made, bc_limit>>
    /\ UNCHANGED unchangedByFork

\* await child.clear()
ChildClear ==
    /\ bc_made
    /\ bc_items # <<>>
    /\ bc_items' = <<>>
    /\ UNCHANGED <<bk_kind, bc_made, bc_limit>>
    /\ UNCHANGED unchangedByFork

\* the parent Pool: add() from two tasks, remove() and clear() from one
ForkPoolStep ==
    /\ bk_kind = "pool"
    /\ \/ /\ pool_calls < MaxForkOps
          /\ \/ \E c \in Callers, id \in Ids :
                    PoolAddBegin(c, ContextItem(1, "d", id))
             \/ \E id \in Ids : PoolRemoveBegin(Main, id)
             \/ PoolClearBegin(Main)
       \/ \E c \in Callers :
              \/ PoolAddEvict(c)
              \/ PoolAddInsert(c)
              \/ PoolAddEnd(c)
       \/ PoolRemoveDel(Main)
       \/ PoolRemoveEnd(Main)
       \/ PoolClearItems(Main)
       \/ PoolClearEnd(Main)

\* the parent Queue
ForkQueueStep ==
    /\ bk_kind = "queue"
    /\ QueueStep(Main)

ForkInit ==
    /\ bc_made = FALSE
    /\ bc_limit = NoLimit
    /\ bc_items = <<>>

ForkNext ==
    \/ ForkPoolStep
    \/ ForkQueueStep
    \/ \E limit \in {InheritLimit} \cup PoolLimits : PoolBranch(limit)
    \/ \E limit \in {InheritLimit} \cup QueueLimits : QueueBranch(limit)
    \/ \E id \in Ids : ChildAdd(ContextItem(2, "d", id))
    \/ \E id \in Ids : ChildRemove(id)
    \/ \E v \in Contents : ChildAppend(ContextItem(v, "None", NoId))
    \/ ChildClear

\* ---------------------------------------------------------- serialization
\* to_dict and from_dict of Turn and Agent.  A Python dict keeps its keys
\* in insertion order: the hooks dict is a sequence of <<key, names>>
\* pairs, and two dicts are equal when they map the same keys to the same
\* values, in whatever order.

\* hooks registered under their names: .type is one event type, a tuple of
\* event types, or absent
SerHooks == {"x", "y", "z", "u"}
TypeOf(h) ==
    CASE h = "x" -> <<"BEFORE_RUN">>
      [] h = "y" -> <<"BEFORE_RUN", "AFTER_RUN">>
      [] h = "z" -> <<"AFTER_RUN">>
      [] OTHER -> <<>>

\* single_type.value
TypeValue(t) == IF t = "BEFORE_RUN" THEN "before_run" ELSE "after_run"

\* StopReason.value and StopReason(value)
StopReasonValue(r) ==
    CASE r = "COMPLETED" -> "completed"
      [] r = "TIMEOUT" -> "timeout"
      [] r = "ERROR" -> "error"
      [] OTHER -> "cancelled"
StopReasonOf(v) ==
    CASE v = "completed" -> "COMPLETED"
      [] v = "timeout" -> "TIMEOUT"
      [] v = "error" -> "ERROR"
      [] OTHER -> "CANCELLED"

\* datetime.isoformat() and datetime.fromisoformat()
IsoFormat(t) == <<"iso", t>>
FromIsoFormat(s) == s[2]

DictKeys(d) == {d[i][1] : i \in 1..Len(d)}
DictValue(d, k) == d[CHOOSE i \in 1..Len(d) : d[i][1] = k][2]

\* hooks_dict.setdefault(key, []).append(hook_name)
SetDefaultAppend(d, key, name) ==
    IF key \in DictKeys(d)
    THEN [i \in 1..Len(d) |->
              IF d[i][1] = key THEN <<key, Append(d[i][2], name)>> ELSE d[i]]
    ELSE Append(d, <<key, <<name>>>>)

RECURSIVE AddTypes(_, _, _)
\* for single_type in types_to_add
AddTypes(d, types, name) ==
    IF types = <<>> THEN d
    ELSE AddTypes(SetDefaultAppend(d, TypeValue(Head(types)), name),
                  Tail(types), name)

RECURSIVE SerializeFrom(_, _)
SerializeFrom(d, hooks) ==
    IF hooks = <<>> THEN d
    ELSE SerializeFrom(AddTypes(d, TypeOf(Head(hooks)), Head(hooks)),
                       Tail(hooks))

\* utils.serialize_hooks_by_type: a hook without type is left out
SerializeHooks(hooks) == SerializeFrom(<<>>, hooks)

RECURSIVE KeepUnseen(_, _)
\* the names not seen yet, each once
KeepUnseen(names, seen) ==
    IF names = <<>> THEN <<>>
    ELSE IF Head(names) \in seen
         THEN KeepUnseen(Tail(names), seen)
         ELSE <<Head(names)>> \o KeepUnseen(Tail(names), seen \cup {Head(names)})

RECURSIVE RebuildFrom(_, _)
RebuildFrom(d, seen) ==
    IF d = <<>> THEN <<>>
    ELSE LET new == KeepUnseen(Head(d)[2], seen)
         IN new \o RebuildFrom(Tail(d), seen \cup Range(new))

\* utils.rebuild_hooks_from_serialization: HookRegistry.get() of each name
\* of the dict, in the order of its keys, a name seen before being skipped
RebuildHooks(d) == RebuildFrom(d, {})

NoStopReason == "None"

\* TurnMetadata.to_dict
MetadataToDict(md) ==
    [start_time |-> IF md.start_time # NoTime
                    THEN IsoFormat(md.start_time) ELSE <<>>,
     stop_reason |-> IF md.stop_reason # NoStopReason
                     THEN StopReasonValue(md.stop_reason) ELSE "None"]

\* TurnMetadata.from_dict
MetadataFromDict(d) ==
    [start_time |-> IF d.start_time # <<>>
                    THEN FromIsoFormat(d.start_time) ELSE NoTime,
     stop_reason |-> IF d.stop_reason # "None"
                     THEN StopReasonOf(d.stop_reason) ELSE NoStopReason]

\* Turn.to_dict
TurnToDict(t) ==
    [tool_name |-> t.tool,
     metadata |-> MetadataToDict(t.metadata),
     output |-> t.output,
     hooks |-> SerializeHooks(t.hooks)]

\* Turn.from_dict: the Tool is looked up by name, the Turn is not running
TurnFromDict(d) ==
    [tool |-> d.tool_name,
     metadata |-> MetadataFromDict(d.metadata),
     output |-> d.output,
     hooks |-> RebuildHooks(d.hooks),
     running |-> FALSE]

NoTurnDict == <<>>

\* Agent.to_dict
AgentToDict(a) ==
    [queue |-> [i \in 1..Len(a.queue) |-> <<TurnToDict(a.queue[i])>>],
     current_turn |-> IF a.current # <<>>
                      THEN <<TurnToDict(a.current[1])>> ELSE NoTurnDict,
     hooks |-> SerializeHooks(a.hooks),
     is_paused |-> a.paused]

\* Agent.from_dict: the Turns are put on a new queue in the order of the
\* list, pause() is called when is_paused is set
AgentFromDictOf(d) ==
    [queue |-> [i \in 1..Len(d.queue) |-> TurnFromDict(d.queue[i][1])],
     current |-> IF d.current_turn # NoTurnDict
                 THEN <<TurnFromDict(d.current_turn[1])>> ELSE <<>>,
     hooks |-> RebuildHooks(d.hooks),
     paused |-> d.is_paused,
     running |-> FALSE]

\* Turns that are not running: never run, completed, timed out
SerTurns ==
    {[tool |-> "single", metadata |-> [start_time |-> NoTime,
                                       stop_reason |-> NoStopReason],
      output |-> 0, hooks |-> hs, running |-> FALSE] :
         hs \in {<<>>, <<"x", "z", "y">>}}
    \cup
    {[tool |-> "single", metadata |-> [start_time |-> 1, stop_reason |-> r],
      output |-> IF r = "COMPLETED" THEN 1 ELSE 0, hooks |-> <<>>,
      running |-> FALSE] : r \in {"COMPLETED", "TIMEOUT"}}

\* Agents that are not running
SerAgents ==
    {[queue |-> q, current |-> c, hooks |-> hs, paused |-> p,
      running |-> FALSE] :
         q \in SeqsUpTo(SerTurns, MaxQueued),
         c \in {<<>>} \cup {<<t>> : t \in SerTurns},
         hs \in SeqsUpTo(SerHooks, MaxAttached),
         p \in BOOLEAN}

\* an Agent just constructed
EmptyAgent ==
    [queue |-> <<>>, current |-> <<>>, hooks |-> <<>>, paused |-> FALSE,
     running |-> FALSE]

unchangedBySer == <<coreVars, lateVars, hookVars, fireVars, regVars, branchVars,
                    forkVars, attrVars>>

\* d1 = x.to_dict(); d2 = Agent.from_dict(d1).to_dict()
SerRoundTrip ==
    /\ s_pc = "made"
    /\ s_pc' = "done"
    /\ s_d1' = AgentToDict(s_agent)
    /\ s_d2' = AgentToDict(AgentFromDictOf(s_d1'))
    /\ UNCHANGED s_agent
    /\ UNCHANGED unchangedBySer

SerInit ==
    /\ s_pc = "made"
    /\ s_d1 = <<>>
    /\ s_d2 = <<>>

SerNext == SerRoundTrip

\* --------------------------------------------------------- mutation guards
\* Turn.__setattr__ and Agent.__setattr__.  The attributes of an object are
\* a function from names to values; an assignment obj.name = value from
\* any code goes through the guard.

AttrValues == {0, 1}
NoAssignment ==
    [name |-> "none", running |-> FALSE, paused |-> FALSE,
     raised |-> "none", kept |-> TRUE, stored |-> FALSE]

\* mutable_while_running, less the running flag
TurnOutcomeAttrs ==
    {"start_time", "end_time", "output", "stop_reason", "metadata"}
TurnOtherAttrs == {"tool", "args", "kwargs", "timeout", "hooks"}
TurnAttrs == TurnOutcomeAttrs \cup TurnOtherAttrs

TurnSetAttrRaisesNever(name, running) == FALSE

\* name not in mutable_while_running and getattr(self, "_is_running", False)
TurnSetAttrRaises(name, running) ==
    /\ name \notin TurnOutcomeAttrs \cup {"_is_running"}
    /\ running

unchangedByTurnAttr ==
    <<coreVars, lateVars, hookVars, fireVars, regVars, branchVars, forkVars, serVars,
      g_running, g_paused, g_attrs, g_last>>

\* turn.name = value
TurnSetAttr(name, value) ==
    /\ w_attrs' = IF TurnSetAttrRaises(name, w_running)
                  THEN w_attrs
                  ELSE [w_attrs EXCEPT ![name] = value]
    /\ w_last' = [name |-> name, running |-> w_running, paused |-> FALSE,
                  raised |-> IF TurnSetAttrRaises(name, w_running)
                             THEN "SafeExecutionError" ELSE "none",
                  kept |-> (w_attrs'[name] = w_attrs[name]),
                  stored |-> (w_attrs'[name] = value)]
    /\ UNCHANGED w_running
    /\ UNCHANGED unchangedByTurnAttr

\* turn._is_running = value, from returning()/yielding() when they start
\* and end, or from any other code
TurnSetRunning(value) ==
    /\ w_running' = value
    /\ w_last' = NoAssignment
    /\ UNCHANGED w_attrs
    /\ UNCHANGED unchangedByTurnAttr

TurnAttrInit ==
    /\ w_running = FALSE
    /\ w_attrs = [n \in TurnAttrs |-> 0]
    /\ w_last = NoAssignment

TurnAttrNext ==
    \/ \E name \in TurnAttrs, value \in AttrValues : TurnSetAttr(name, value)
    \/ \E value \in BOOLEAN : TurnSetRunning(value)

AgentExemptAttrs == {"_current_turn"}
AgentOtherAttrs ==
    {"name", "description", "tools", "hooks", "turn_hooks", "context_pool",
     "context_queue"}
AgentAttrs == AgentExemptAttrs \cup AgentOtherAttrs

AgentSetAttrRaisesRunningOnly(name, running, paused) ==
    /\ name \notin AgentExemptAttrs \cup {"_is_running"}
    /\ running

\* name not in ("_is_running", "_current_turn") and the Agent is running or
\* its _pause_event is clear
AgentSetAttrRaises(name, running, paused) ==
    /\ name \notin AgentExemptAttrs \cup {"_is_running"}
    /\ running \/ paused

unchangedByAgentAttr ==
    <<coreVars, lateVars, hookVars, fireVars, regVars, branchVars, forkVars, serVars,
      w_running, w_attrs, w_last>>

\* agent.name = value
AgentSetAttr(name, value) ==
    /\ g_attrs' = IF AgentSetAttrRaises(name, g_running, g_paused)
                  THEN g_attrs
                  ELSE [g_attrs EXCEPT ![name] = value]
    /\ g_last' = [name |-> name, running |-> g_running, paused |-> g_paused,
                  raised |-> IF AgentSetAttrRaises(name, g_running, g_paused)
                             THEN "SafeExecutionError" ELSE "none",
                  kept |-> (g_attrs'[name] = g_attrs[name]),
                  stored |-> (g_attrs'[name] = value)]
    /\ UNCHANGED <<g_running, g_paused>>
    /\ UNCHANGED unchangedByAgentAttr

\* agent._is_running = value, from run() when it starts and ends
AgentSetRunning(value) ==
    /\ g_running' = value
    /\ g_last' = NoAssignment
    /\ UNCHANGED <<g_paused, g_attrs>>
    /\ UNCHANGED unchangedByAgentAttr

\* pause() clears _pause_event, resume() sets it
AgentSetPaused(value) ==
    /\ g_paused' = value
    /\ g_last' = NoAssignment
    /\ UNCHANGED <<g_running, g_attrs>>
    /\ UNCHANGED unchangedByAgentAttr

AgentAttrInit ==
    /\ g_running = FALSE
    /\ g_paused = FALSE
    /\ g_attrs = [n \in AgentAttrs |-> 0]
    /\ g_last = NoAssignment

AgentAttrNext ==
    \/ \E name \in AgentAttrs, value \in AttrValues : AgentSetAttr(name, value)
    \/ \E value \in BOOLEAN : AgentSetRunning(value)
    \/ \E value \in BOOLEAN : AgentSetPaused(value)

\* ------------------------------------------------------------ Agent.send
\* send(agent_name, turn) looks the name up in AgentRegistry and awaits the
\* put() of the Agent found.  The parent is built over the Tools single and
\* stream, the child by branch(name, tools=[single]); every Agent is
\* registered under its name when it is constructed.

AgentNames == Agents \cup {"nobody"}
NoSend == [sender |-> "none", name |-> "none", tool |-> NoTool, turn |-> 0,
           raised |-> "None"]

\* Agent._tool_names
ToolsOf(g) == IF g = "parent" THEN {"single", "stream"} ELSE {"single"}

\* AgentRegistry.get(name) raises UnregisteredAgentError
IsUnregistered(name) == name \notin Agents \/ (name = "child" /\ ~b_made)

SendTargetIsSender(sender, name) == sender

\* target = AgentRegistry.get(agent_name)
SendTarget(sender, name) == name

\* the exception send() raises, by the lookup or by the target's put()
SendRaises(sender, name, tool) ==
    IF IsUnregistered(name) THEN "UnregisteredAgentError"
    ELSE IF PutRejects(ToolsOf(SendTarget(sender, name)), AgentTurn(0, tool))
    THEN "ValueError"
    ELSE "None"

\* await sender.send(name, turn) with a Turn just constructed for the Tool:
\* the target's put() fires BEFORE_PUT, puts the Turn on the target's queue
\* and fires AFTER_PUT
Send(sender, name, tool) ==
    /\ sender = "child" => b_made
    /\ sd_n < MaxSends
    /\ sd_n' = sd_n + 1
    /\ LET e == SendRaises(sender, name, tool)
       IN /\ sd_last' = [sender |-> sender, name |-> name, tool |-> tool,
                         turn |-> IF e = "None" THEN b_n + 1 ELSE 0,
                         raised |-> e]
          /\ IF e = "None"
             THEN /\ b_n < MaxTurns
                  /\ b_n' = b_n + 1
                  /\ b_queue' = [b_queue EXCEPT ![SendTarget(sender, name)] =
                                    PutNowait(@, b_n + 1)]
             ELSE UNCHANGED <<b_n, b_queue>>
    /\ UNCHANGED <<b_made, b_cur, b_turn, b_pool, b_cq, b_last>>
    /\ UNCHANGED <<coreVars, iterVars, hookVars, fireVars, regVars, forkVars,
                   serVars, attrVars>>

SendInit ==
    /\ sd_n = 0
    /\ sd_last = NoSend

SendNext ==
    \/ BranchMake
    \/ \E g \in Agents :
           \/ BranchPut(g)
           \/ BranchStartTurn(g)
           \/ \E kind \in OutputKinds : BranchTurnEnd(g, kind)
           \/ \E name \in AgentNames, tool \in PutTools : Send(g, name, tool)

\* ------------------------------------------- the Turn's hooks in run()
\* One iteration of Agent.run() over a Turn taken from the queue: the
\* Agent's turn_hooks are appended to turn.hooks before the Turn is executed
\* and the finally clause assigns the copy made before back to turn.hooks.
\* The consumer of run() may close the generator where it is suspended.

TurnHookNames == {"p", "q"}
HookLists == SeqsUpTo(TurnHookNames, MaxTurnHooks)
IterEnds == {"none", "success", "timeout", "error", "closed"}

\* the assignment of the finally clause, never refused
RestoreAlways(running, hooks, orig) == orig

\* turn.hooks = original_hooks: Turn.__setattr__ raises for 'hooks' while
\* the Turn is running, and then turn.hooks is left as it is
Restore(running, hooks, orig) ==
    IF TurnSetAttrRaises("hooks", running) THEN hooks ELSE orig

unchangedByIter ==
    <<coreVars, hookVars, fireVars, regVars, branchVars, forkVars, serVars,
      attrVars, sendVars>>

\* BEFORE_TURN hooks returned: the Turn is taken, its hooks are copied and
\* extended, and returning() or yielding() starts and sets _is_running
IterStart ==
    /\ th_pc = "queued"
    /\ th_orig' = th_hooks
    /\ th_hooks' = th_hooks \o th_agent
    /\ th_running' = TRUE
    /\ th_pc' = "turn"
    /\ UNCHANGED <<th_kind, th_agent, th_n, th_end>>
    /\ UNCHANGED unchangedByIter

\* the Turn produces a value (returning() returns, its finally clause
\* clearing _is_running, or yielding() yields and stays suspended); the
\* value is routed, ON_TURN_VALUE fired and the value yielded by run()
IterValue ==
    /\ th_pc = "turn"
    /\ th_n < (IF IsAsyncGenFunction(th_kind) THEN MaxYield ELSE 1)
    /\ th_n' = th_n + 1
    /\ th_running' = IsAsyncGenFunction(th_kind)
    /\ th_pc' = "yielded"
    /\ UNCHANGED <<th_kind, th_agent, th_hooks, th_orig, th_end>>
    /\ UNCHANGED unchangedByIter

\* the finally clause of the iteration, then AFTER_TURN
IterFinally(how) ==
    /\ th_hooks' = Restore(th_running', th_hooks, th_orig)
    /\ th_end' = how
    /\ th_pc' = "ended"

\* the consumer asks for the next value: a streaming Turn is resumed, a
\* single-result Turn is over
IterResume ==
    /\ th_pc = "yielded"
    /\ IF IsAsyncGenFunction(th_kind)
       THEN /\ th_pc' = "turn"
            /\ UNCHANGED <<th_hooks, th_end, th_running>>
       ELSE /\ th_running' = th_running
            /\ IterFinally("success")
    /\ UNCHANGED <<th_kind, th_agent, th_orig, th_n>>
    /\ UNCHANGED unchangedByIter

\* the streaming Turn ends: the finally clause of yielding() clears
\* _is_running, the loop over its values ends
IterTurnEnds ==
    /\ th_pc = "turn"
    /\ IsAsyncGenFunction(th_kind)
    /\ th_running' = FALSE
    /\ IterFinally("success")
    /\ UNCHANGED <<th_kind, th_agent, th_orig, th_n>>
    /\ UNCHANGED unchangedByIter

\* the Turn times out or its Tool raises: the Turn's finally clause clears
\* _is_running and the exception passes through the finally clause of run()
IterTurnFails(e) ==
    /\ th_pc = "turn"
    /\ th_running' = FALSE
    /\ IterFinally(IF IsTimeoutError(e) THEN "timeout" ELSE "error")
    /\ UNCHANGED <<th_kind, th_agent, th_orig, th_n>>
    /\ UNCHANGED unchangedByIter

\* the consumer closes run() where it is suspended: GeneratorExit is raised
\* at 'yield (turn, value)' and the finally clause runs; the generator of
\* yielding(), still suspended at its own yield, is closed only afterwards
IterClose ==
    /\ th_pc = "yielded"
    /\ th_hooks' = Restore(th_running, th_hooks, th_orig)
    /\ th_running' = FALSE
    /\ th_end' = "closed"
    /\ th_pc' = "ended"
    /\ UNCHANGED <<th_kind, th_agent, th_orig, th_n>>
    /\ UNCHANGED unchangedByIter

\* a Turn with its own hooks on the queue of an Agent with turn_hooks
IterInit ==
    /\ th_kind \in ToolKinds
    /\ th_agent \in HookLists
    /\ th_hooks \in HookLists
    /\ th_orig = <<>>
    /\ th_running = FALSE
    /\ th_pc = "queued"
    /\ th_n = 0
    /\ th_end = "none"

IterNext ==
    \/ IterStart
    \/ IterValue
    \/ IterResume
    \/ IterTurnEnds
    \/ \E e \in TurnFailures : IterTurnFails(e)
    \/ IterClose


\* the branch models as constructed
CopiesInit ==
    /\ BranchInit
    /\ ForkInit /\ bk_kind = "pool"
    /\ SerInit /\ s_agent = EmptyAgent
    /\ TurnAttrInit
    /\ AgentAttrInit

\* the hook, fire and registry models as constructed, with fixed parameters
EarlyInit ==
    /\ HookInit /\ hk_flag = [h \in HookIds |-> FALSE]
    /\ FireInit
    /\ h_type = [h \in HookIds |-> {FiredType}]
    /\ h_tags = [h \in HookIds |-> NoTags]
    /\ RegistryInit
    /\ CopiesInit

\* the models added last as constructed, with fixed parameters
LateInit ==
    /\ IterInit /\ th_kind = "coroutine"
    /\ th_agent = <<>> /\ th_hooks = <<>>
    /\ SendInit

ExtInit ==
    /\ EarlyInit
    /\ LateInit

\* the other components as constructed, with fixed parameters
CoreInit ==
    /\ PoolInit /\ pool_limit = NoLimit
    /\ QueueInit /\ cq_limit = 1
    /\ TurnInit /\ tool_kind = "coroutine" /\ tool_lock = "none"
    /\ t_timeout = 1
    /\ AgentInit /\ a_tools = ToolNames
    /\ InvokeInit

\* each specification explores one component; the others stay as
\* constructed, with fixed parameters
PoolOnly ==
    /\ PoolInit
    /\ QueueInit /\ cq_limit = 1
    /\ TurnInit /\ tool_kind = "coroutine" /\ tool_lock = "none"
    /\ t_timeout = 1
    /\ AgentInit /\ a_tools = ToolNames
    /\ InvokeInit
    /\ ExtInit

QueueOnly ==
    /\ QueueInit
    /\ PoolInit /\ pool_limit = NoLimit
    /\ TurnInit /\ tool_kind = "coroutine" /\ tool_lock = "none"
    /\ t_timeout = 1
    /\ AgentInit /\ a_tools = ToolNames
    /\ InvokeInit
    /\ ExtInit

TurnOnly ==
    /\ TurnInit
    /\ PoolInit /\ pool_limit = NoLimit
    /\ QueueInit /\ cq_limit = 1
    /\ AgentInit /\ a_tools = ToolNames
    /\ InvokeInit
    /\ ExtInit

AgentOnly ==
    /\ AgentInit /\ a_tools = {"single", "stream"}
    /\ PoolInit /\ pool_limit = NoLimit
    /\ QueueInit /\ cq_limit = 1
    /\ TurnInit /\ tool_kind = "coroutine" /\ tool_lock = "none"
    /\ t_timeout = 1
    /\ InvokeInit
    /\ ExtInit

PoolStep(c) ==
    \/ \E item \in BadPoolItems : PoolAddInvalid(c, item)
    \/ \E item \in PoolItems : PoolAddBegin(c, item)
    \/ PoolAddEvict(c)
    \/ PoolAddInsert(c)
    \/ PoolAddEnd(c)
    \/ \E id \in Ids : PoolRemoveBegin(c, id)
    \/ PoolRemoveDel(c)
    \/ PoolRemoveEnd(c)
    \/ PoolClearBegin(c)
    \/ PoolClearItems(c)
    \/ PoolClearEnd(c)

\* concurrent use: any caller may take its next step
PoolNext == \E c \in Callers : PoolStep(c)

SpecPool == PoolOnly /\ [][PoolNext]_vars

\* sequential use: one task makes the calls, awaiting each before the next
PoolSeqNext == PoolStep(Main)

SpecPoolSeq == PoolOnly /\ [][PoolSeqNext]_vars

\* concurrent callers of one Turn
TurnNext == Tick \/ \E c \in Callers : TurnStep(c)

SpecTurn == TurnOnly /\ [][TurnNext]_vars

\* one caller, one call after the other
TurnSeqNext == Tick \/ TurnStep(Main)

SpecTurnSeq == TurnOnly /\ [][TurnSeqNext]_vars

LockOnly == TurnOnly /\ tool_lock = "free"

\* a Tool with a lock run by concurrent executions; the event loop runs
\* every task that is ready, bodies end and callers keep iterating
SpecLock ==
    /\ LockOnly
    /\ [][TurnNext]_vars
    /\ \A c \in Callers : WF_vars(TurnStep(c))

ToolOnly ==
    /\ TurnInit /\ t_timeout = 1
    /\ InvokeInit
    /\ PoolInit /\ pool_limit = NoLimit
    /\ QueueInit /\ cq_limit = 1
    /\ AgentInit /\ a_tools = ToolNames
    /\ ExtInit

\* one Tool, with or without lock, called by concurrent tasks
SpecTool == ToolOnly /\ [][InvokeNext]_vars

\* one Agent: its run() loop, callers of put(), pause() and resume()
SpecAgent == AgentOnly /\ [][AgentNext]_vars

\* one Agent whose gate stays open and whose Tools return in time; the event
\* loop runs every task that is ready and the caller of run() keeps iterating
SpecDrain == AgentOnly /\ [][DrainNext]_vars /\ WF_vars(DrainSteps)

CopyOnly ==
    /\ AgentInit
    /\ PoolInit /\ pool_limit = NoLimit
    /\ QueueInit /\ cq_limit = 1
    /\ TurnInit /\ tool_kind = "coroutine" /\ tool_lock = "none"
    /\ t_timeout = 1
    /\ InvokeInit
    /\ ExtInit

\* one Agent and the Agent made from it by branch() or from_dict()
SpecCopy == CopyOnly /\ [][CopyNext]_vars

QueueNext == \E c \in Callers : QueueStep(c)

SpecQueue == QueueOnly /\ [][QueueNext]_vars

HookOnly ==
    /\ CoreInit
    /\ HookInit /\ hk_flag \in [HookIds -> BOOLEAN]
    /\ FireInit
    /\ h_type = [h \in HookIds |-> {FiredType}]
    /\ h_tags = [h \in HookIds |-> NoTags]
    /\ RegistryInit
    /\ CopiesInit
    /\ LateInit

\* hooks with and without lock, each called by concurrent tasks
SpecHook == HookOnly /\ [][HookNext]_vars

FireOnly ==
    /\ CoreInit
    /\ HookInit /\ hk_flag = [h \in HookIds |-> FALSE]
    /\ FireInit
    /\ h_type \in [HookIds -> HookTypes]
    /\ h_tags \in [HookIds -> HookTags]
    /\ RegistryInit
    /\ CopiesInit
    /\ LateInit

\* two hooks of any type and tags, registered globally and fired
SpecFire == FireOnly /\ [][FireNext]_vars

\* the same, with hooks that may raise
SpecFireRaise == FireOnly /\ [][FireRaiseNext]_vars

RegistryOnly ==
    /\ CoreInit
    /\ ExtInit

\* the three registries and objects two of which carry the same name
SpecRegistry == RegistryOnly /\ [][RegistryNext]_vars

\* a parent Agent, the child made by branch(), Turns put and run on both
SpecBranch == RegistryOnly /\ [][BranchNext]_vars

ForkOnly ==
    /\ PoolInit
    /\ QueueInit
    /\ TurnInit /\ tool_kind = "coroutine" /\ tool_lock = "none"
    /\ t_timeout = 1
    /\ AgentInit /\ a_tools = ToolNames
    /\ InvokeInit
    /\ HookInit /\ hk_flag = [h \in HookIds |-> FALSE]
    /\ FireInit
    /\ h_type = [h \in HookIds |-> {FiredType}]
    /\ h_tags = [h \in HookIds |-> NoTags]
    /\ RegistryInit
    /\ BranchInit
    /\ SerInit /\ s_agent = EmptyAgent
    /\ TurnAttrInit
    /\ AgentAttrInit
    /\ ForkInit /\ bk_kind \in ContainerKinds
    /\ LateInit
    /\ bk_kind = "pool" => cq_limit = 1
    /\ bk_kind = "queue" => pool_limit = NoLimit

\* a Pool or a Queue in use, the child made by branch(), calls on the child
SpecFork == ForkOnly /\ [][ForkNext]_vars

SerOnly ==
    /\ CoreInit
    /\ HookInit /\ hk_flag = [h \in HookIds |-> FALSE]
    /\ FireInit
    /\ h_type = [h \in HookIds |-> {FiredType}]
    /\ h_tags = [h \in HookIds |-> NoTags]
    /\ RegistryInit
    /\ BranchInit
    /\ ForkInit /\ bk_kind = "pool"
    /\ SerInit /\ s_agent \in SerAgents
    /\ TurnAttrInit
    /\ AgentAttrInit
    /\ LateInit

\* any Agent that is not running, recorded, restored and recorded again
SpecSer == SerOnly /\ [][SerNext]_vars

\* assignments to the attributes of a Turn that starts and stops running
SpecTurnAttr == RegistryOnly /\ [][TurnAttrNext]_vars

\* assignments to the attributes of an Agent that runs, pauses and resumes
SpecAgentAttr == RegistryOnly /\ [][AgentAttrNext]_vars

IterOnly ==
    /\ CoreInit
    /\ EarlyInit
    /\ IterInit
    /\ SendInit

\* one iteration of run() over a Turn and an Agent with any hooks
SpecIter == IterOnly /\ [][IterNext]_vars

\* two Agents that put, run and send Turns to each other by name
SpecSend == RegistryOnly /\ [][SendNext]_vars

\* ------------------------------------------------------------------ claims
Quiet(pc) == \A c \in Callers : pc[c] \in {"idle", "done"}

\* C2 (as claimed): with a capacity C the Pool never holds more than C
\* entries, whatever the interleaving of add(), remove() and clear() calls
\* that suspend inside their hooks.
C2_PoolWithinCapacity ==
    pool_limit # NoLimit => Len(pool_items) <= pool_limit

\* C3: the Queue never holds more than C items, and as long as only
\* append() was called it holds exactly the last min(C, N) of the N items
\* appended so far, oldest first.
C3_QueueHoldsLastItems ==
    /\ Len(cq_items) <= cq_limit
    /\ ~cq_cleared => cq_items = LastN(cq_appended, cq_limit)

C3_Witness ==
    /\ ~cq_cleared
    /\ Quiet(cq_pc)
    /\ Len(cq_appended) > cq_limit + 1
    /\ Len(cq_evicted) > 1
    /\ cq_items = LastN(cq_appended, cq_limit)
    /\ cq_items # FirstN(cq_appended, cq_limit)

\* C4: after sequential add() calls with more than C distinct identifiers
\* (and no other call), the Pool holds exactly the C most recently inserted
\* entries in insertion order, and on-evict has fired exactly once for each
\* displaced entry, in the order displaced, with that entry as argument.
C4_PoolKeepsMostRecent ==
    ( /\ pool_pc[Main] \in {"idle", "done"}
      /\ pool_distinct
      /\ pool_limit # NoLimit
      /\ Len(pool_added) > pool_limit )
    => /\ pool_items = LastN(pool_added, pool_limit)
       /\ pool_evicted = FirstN(pool_added, Len(pool_added) - pool_limit)

C4_Witness ==
    /\ pool_pc[Main] = "done"
    /\ pool_distinct
    /\ pool_limit # NoLimit
    /\ Len(pool_added) > pool_limit + 1
    /\ Len(pool_evicted) = 2
    /\ Len(pool_items) = pool_limit

\* C5: add() with an identifier that is already present replaces the
\* stored item in place, leaves every other entry and the size as they
\* were, and fires no on-evict, also when the Pool is at capacity.
C5_PoolUpdateInPlace ==
    LET c == Main
        item == pool_arg[c]
        before == pool_snap[c]
    IN  ( /\ pool_op[c] = "add"
          /\ item \in PoolItems
          /\ HasKey(before, item.id) )
        => /\ pool_pc[c] \in {"add_before", "add_after", "done"}
           /\ pool_err[c] = "None"
           /\ Len(pool_evicted) = pool_snapEv[c]
           /\ Len(pool_items) = Len(before)
           /\ \A i \in 1..Len(before) :
                  pool_items[i] =
                      IF before[i].id = item.id /\ pool_pc[c] # "add_before"
                      THEN item ELSE before[i]

C5_Witness ==
    LET c == Main
        item == pool_arg[c]
        before == pool_snap[c]
    IN  /\ pool_pc[c] = "done"
        /\ pool_op[c] = "add"
        /\ item \in PoolItems
        /\ HasKey(before, item.id)
        /\ pool_limit # NoLimit
        /\ Len(before) = pool_limit
        /\ Len(before) > 1
        /\ DictGet(before, item.id) # item
        /\ DictGet(pool_items, item.id) = item

\* --------------------------------------------------------- claims on Turn
BodyInProgress(c) == p_pc[c] \in {"tc_body", "tc_on_yield"}

Count(seq, e) == Cardinality({i \in 1..Len(seq) : seq[i] = e})

\* the call of c has ended otherwise than by SafeExecutionError
Ended(c, method) ==
    /\ t_pc[c] = "done"
    /\ t_method[c] = method
    /\ t_raised[c] # "SafeExecutionError"

\* C1: a Turn has at most one execution in progress: whatever the
\* interleaving of concurrent returning()/yielding() calls on it, two
\* invocations of its Tool body are never in progress at once
C1_AtMostOneExecution ==
    Cardinality({c \in Callers : BodyInProgress(c)}) <= 1

\* C6: a call during which the timeout elapsed with the Tool body
\* unfinished ends with TurnTimeoutError and stop reason TIMEOUT, under
\* returning() and under yielding()
C6_LateBodyTimesOut ==
    \A c \in Callers :
        t_pc[c] = "done" /\ t_late[c] =>
            /\ t_raised[c] = "TurnTimeoutError"
            /\ t_meta.stop_reason = "timeout"

\* C7: a call whose Tool body raised an exception, and which ended before
\* its timeout elapsed, leaves stop reason ERROR, has fired ON_ERROR with
\* that exception, and raises that same exception to the caller
C7_BodyExceptionIsError ==
    \A c \in Callers :
        /\ t_pc[c] = "done"
        /\ p_exc[c] \in BodyExceptions
        /\ t_meta.end_time < t_deadline[c]
        => /\ t_meta.stop_reason = "error"
           /\ Count(t_events[c], "on_error") = 1
           /\ t_exc[c] = p_exc[c]
           /\ t_raised[c] = p_exc[c]

\* C8: once returning() has ended, by success, timeout or exception, the
\* end time is set, the running flag is cleared and ON_COMPLETE has fired
\* exactly once
C8_OnCompleteFiresOnce ==
    \A c \in Callers :
        Ended(c, "returning") =>
            /\ t_meta.end_time # NoTime
            /\ ~t_running
            /\ Count(t_events[c], "on_complete") = 1

\* C9: a successful returning() has fired exactly these events, in this
\* order: before-run, Tool before-invoke, Tool body, Tool after-invoke,
\* after-run, on-complete
C9_SuccessfulEventOrder ==
    \A c \in Callers :
        Ended(c, "returning") /\ t_raised[c] = "None" =>
            t_events[c] = <<"before_run", "before_invoke", "body",
                            "after_invoke", "after_run", "on_complete">>

\* the call of c uses the protocol the Tool does not have
WrongProtocol(c) ==
    \/ t_method[c] = "returning" /\ IsAsyncGenFunction(tool_kind)
    \/ t_method[c] = "yielding" /\ ~IsAsyncGenFunction(tool_kind)

\* C10: returning() on a streaming Tool and yielding() on a single-result
\* Tool never start the Tool body, and end with WrongRunMethodError
C10_WrongProtocolFails ==
    \A c \in Callers :
        WrongProtocol(c) =>
            /\ Count(t_events[c], "body") = 0
            /\ ~BodyInProgress(c)
            /\ t_pc[c] = "done" => t_raised[c] = "WrongRunMethodError"

C10_Witness ==
    /\ t_calls = MaxTurnCalls
    /\ t_pc[Main] = "done"
    /\ WrongProtocol(Main)
    /\ t_raised[Main] = "WrongRunMethodError"
    /\ t_meta.stop_reason = "error"
    /\ ~t_running

StopReasons == {"completed", "timeout", "error"}

\* C11: a Turn that is not running and has a recorded stop reason
\* (COMPLETED, TIMEOUT or ERROR) never runs again: no step sets the running
\* flag or changes the recorded metadata and output
C11_TerminalIsFinal ==
    [][(~t_running /\ t_meta.stop_reason \in StopReasons) =>
          (~t_running' /\ t_meta' = t_meta /\ t_output' = t_output)]_vars

\* C12: a yielding() call that ended with an exception after the caller
\* received some values leaves those values, in order, as the Turn's output
C12_PartialOutputKept ==
    \A c \in Callers :
        /\ Ended(c, "yielding")
        /\ t_raised[c] # "None"
        /\ t_got[c] # <<>>
        => t_output = Output(t_got[c])

\* ------------------------------------------------------------------ Agent
TurnIds(queue) == [i \in 1..Len(queue) |-> queue[i].turn]

InSeq(seq, e) == \E i \in 1..Len(seq) : seq[i] = e

\* C13: while the pause gate is closed the run loop starts no Turn,
\* wherever pause() and resume() are called relative to the loop's awaits
\* (a Turn in flight is not touched by pause(): no action of pause() changes
\* the position of the loop)
C13_ClosedGateStartsNoTurn ==
    [][a_paused => a_started' = a_started]_vars

\* C14: the Turns are started in the order they were enqueued: what was
\* enqueued is what was started followed by what is pending, whatever
\* pause() and resume() did in between
C14_StartedInEnqueueOrder ==
    a_enq = a_started \o TurnIds(a_queue)

\* two Turns were started, the second one chained by the first, and the
\* gate has been closed
C14_Witness ==
    /\ Len(a_started) = 2
    /\ put_pc["run"] = "done"
    /\ put_turn["run"].turn = a_started[2]
    /\ a_paused

Accepts(tools, queue, current) ==
    /\ \A i \in 1..Len(queue) : queue[i].tool \in tools
    /\ current # NoTurn => current.tool \in tools

\* C15: every Turn pending or in flight on an Agent has a Tool the Agent
\* accepts; so for the Agent made by branch() or from_dict()
C15_HeldTurnsAreAccepted ==
    /\ Accepts(a_tools, a_queue, a_current)
    /\ ch_made => Accepts(ch_tools, ch_queue, ch_current)

Unacceptable(turn) == turn.tool = NoTool \/ turn.tool \notin a_tools

InPool(item) == InSeq(pool_items, item)

C17_TurnFailureEndsRun ==
    a_failed # NoFailure =>
        /\ a_pc \in {"turn_failed", "done"}
        /\ a_failed.hook = (IF a_failed.exc = "TurnTimeoutError"
                            THEN "on_timeout" ELSE "on_error")
        /\ a_pc = "done" => a_raised = a_failed.exc /\ ~a_running
        /\ Len(a_started) = a_failed.started
        /\ ~InSeq(TurnIds(a_queue), a_failed.turn)
        /\ a_current # NoTurn => a_pc = "turn_failed"

\* a Turn failed, its exception has reached the caller, and another Turn is
\* still pending
C17_Witness ==
    /\ a_failed # NoFailure
    /\ a_pc = "done"
    /\ a_raised = a_failed.exc
    /\ a_queue # <<>>

PutLog == <<"before_put", "enqueued", "after_put">>

\* C18: put() of a Turn without Tool or with a Tool that is not accepted
\* raises the validation error, fires no hook and leaves the queue as it
\* was; otherwise before-put fires, the Turn is enqueued, after-put fires
C18_PutValidates ==
    \A c \in PutCallers :
        put_pc[c] # "idle" =>
            IF Unacceptable(put_turn[c])
            THEN /\ put_pc[c] = "done"
                 /\ put_raised[c] = "ValueError"
                 /\ put_log[c] = <<>>
                 /\ put_kept[c]
                 /\ ~InSeq(a_enq, put_turn[c].turn)
            ELSE /\ put_raised[c] = "None"
                 /\ IF put_pc[c] = "before_put"
                    THEN /\ put_log[c] = SubSeq(PutLog, 1, 1)
                         /\ ~InSeq(a_enq, put_turn[c].turn)
                    ELSE /\ put_log[c] = PutLog
                         /\ InSeq(a_enq, put_turn[c].turn)

\* a put() was refused after another one had enqueued its Turn
C18_Witness ==
    /\ put_pc["ext"] = "done"
    /\ put_raised["ext"] = "ValueError"
    /\ a_queue # <<>>

\* ------------------------------------------------------------------- Tool
HookPositions == {"tc_before", "tc_on_yield", "tc_error", "tc_after"}

\* C19: the lock of a Tool is not held while the hooks of the call that
\* took it run (before-invoke, on-yield, on-error, after-invoke)
C19_NoLockDuringHooks ==
    \A c \in Callers : tool_lock = c => p_pc[c] \notin HookPositions

\* the body of the call has started and has not ended
BodyOpen(c) == p_pc[c] \in {"tc_body", "tc_on_yield", "tc_yielded"}

\* C20: the bodies of concurrent calls of a Tool with a lock do not
\* overlap: at most one call is between the start and the end of its body
C20_LockSerializesBodies ==
    tool_lock # "none" => Cardinality({c \in Callers : BodyOpen(c)}) <= 1

\* one call is in the body of the Tool while another waits for the lock,
\* after a first call has ended and released it
C20_Witness ==
    /\ i_calls = 3
    /\ \E c, d \in Callers :
           /\ p_pc[c] = "tc_body" /\ tool_lock = c
           /\ p_pc[d] = "tc_lockwait"

\* ---------------------------------------------------------- Hook claims

\* the tasks running the function of hook h
InBody(h) == {c \in HookTasks : hk_pc[c] = "body" /\ hk_of[c] = h}

\* C21: a hook created with the mutual-exclusion flag never has two of its
\* invocations inside its function at once, however many tasks call it
C21_LockedHookNeverOverlaps ==
    \A h \in HookIds : hk_flag[h] => Cardinality(InBody(h)) <= 1

\* a task runs the function of a locked hook while another task has called
\* the same hook and waits for the lock
C21_Witness ==
    \E h \in HookIds, c, d \in HookTasks :
        /\ hk_flag[h]
        /\ c \in InBody(h)
        /\ hk_pc[d] = "enter" /\ hk_of[d] = h

Occurrences(h, s) == Cardinality({i \in 1..Len(s) : s[i] = h})

\* the hooks a finished fire() had both in its instance list and in the
\* global list of the fired type
InBoth == Range(f_args) \cap Range(f_snap)

\* C22: a hook that is in the instance list given to fire() and registered
\* globally for the fired type is invoked exactly once by that fire()
C22_BothFiresOnce ==
    f_pc = "done" => \A h \in InBoth : f_calls[h] = 1

\* C22, for a hook that occurs once in the instance list
C22_AttachedOnceFiresOnce ==
    f_pc = "done" =>
        \A h \in InBoth : Occurrences(h, f_args) = 1 => f_calls[h] = 1

C22_Witness ==
    /\ f_pc = "done"
    /\ \E h \in InBoth : Occurrences(h, f_args) = 1 /\ f_calls[h] = 1

\* the global hooks of the fired type that did not fire as instance hooks
GlobalOnly == Range(f_snap) \ f_fired

NoTagsOrEmpty(tags) == tags = NoTags \/ tags = TagSet({})
SharesTag(tags, source) == tags # NoTags /\ tags[1] \cap source # {}

\* C23: a global hook of the fired type that did not fire as an instance
\* hook is invoked by fire() if and only if its tag set is empty or shares
\* a tag with the tags of the source
C23_InvokedIffEmptyOrShared ==
    f_pc = "done" =>
        \A h \in GlobalOnly :
            f_calls[h] >= 1 <=>
                NoTagsOrEmpty(h_tags[h]) \/ SharesTag(h_tags[h], f_src)

\* C23, with "no tag set" for "empty tag set": tags is None
C23_InvokedIffNoneOrShared ==
    f_pc = "done" =>
        \A h \in GlobalOnly :
            f_calls[h] >= 1 <=>
                h_tags[h] = NoTags \/ SharesTag(h_tags[h], f_src)

\* one global hook was invoked for a shared tag, another was passed over
C23_Witness ==
    /\ f_pc = "done"
    /\ \E h, g \in GlobalOnly :
           /\ SharesTag(h_tags[h], f_src) /\ f_calls[h] >= 1
           /\ h_tags[g] # NoTags /\ f_calls[g] = 0

\* C27: in every registry, register() under a name held by a different
\* object fails and leaves the mapping as it was, and register() of the
\* object that already holds the name succeeds and changes nothing
C27_SameInstanceIsNoOp ==
    r_last.kind # "none" =>
        /\ (r_last.existing # NoObject /\ r_last.existing # r_last.item)
               => (r_last.raised = "ValueError" /\ r_last.kept)
        /\ r_last.existing = r_last.item
               => (r_last.raised = "none" /\ r_last.kept)

\* -------------------------------------------------------- branch claims

\* C24: branch() leaves the parent's pending queue as it was and gives the
\* child an equal one; afterwards no call on one of the two Agents changes
\* the other's pending queue, the recorded state of a Turn in that queue,
\* or the other's Context Pool and Context Queue
C24_BranchedAgentsIndependent ==
    [][/\ (~ b_made /\ b_made') =>
              /\ b_queue'["parent"] = b_queue["parent"]
              /\ b_queue'["child"] = b_queue["parent"]
       /\ (b_made /\ b_made') =>
              LET o == Other(b_last')
              IN /\ b_queue'[o] = b_queue[o]
                 /\ \A t \in Range(b_queue[o]) : b_turn'[t] = b_turn[t]
                 /\ b_pool'[o] = b_pool[o]
                 /\ b_cq'[o] = b_cq[o]]_vars

\* the parent container of the branch
ParentItems == IF bk_kind = "pool" THEN pool_items ELSE cq_items
ParentLimit == IF bk_kind = "pool" THEN pool_limit ELSE cq_limit

\* C25: the child made by branch() of a Pool or Queue with the capacity
\* unchanged holds what the parent holds, and no later call on one of the
\* two changes the contents of the other
C25_BranchedContainerIndependent ==
    [][/\ (~ bc_made /\ bc_made' /\ bc_limit' = ParentLimit) =>
              bc_items' = ParentItems
       /\ (bc_made /\ bc_made') =>
              (ParentItems' = ParentItems \/ bc_items' = bc_items)]_vars

\* the child of a parent that is within its capacity holds what it holds
C25_ChildEqualsParentWithinCapacity ==
    [][(/\ ~ bc_made /\ bc_made' /\ bc_limit' = ParentLimit
        /\ (ParentLimit # NoLimit => Len(ParentItems) <= ParentLimit)) =>
              bc_items' = ParentItems]_vars

\* no call changes the contents of both the parent and the child
C25_LaterCallsIndependent ==
    [][(bc_made /\ bc_made') =>
              (ParentItems' = ParentItems \/ bc_items' = bc_items)]_vars

\* ---------------------------------------------------- serialization claim

\* a hooks dict as the mapping it is
HooksMap(d) == [k \in DictKeys(d) |-> DictValue(d, k)]

TurnDictEq(a, b) ==
    /\ a.tool_name = b.tool_name
    /\ a.metadata = b.metadata
    /\ a.output = b.output
    /\ HooksMap(a.hooks) = HooksMap(b.hooks)

AgentDictEq(a, b) ==
    /\ Len(a.queue) = Len(b.queue)
    /\ \A i \in 1..Len(a.queue) : TurnDictEq(a.queue[i][1], b.queue[i][1])
    /\ (a.current_turn = NoTurnDict) = (b.current_turn = NoTurnDict)
    /\ a.current_turn # NoTurnDict =>
           TurnDictEq(a.current_turn[1], b.current_turn[1])
    /\ HooksMap(a.hooks) = HooksMap(b.hooks)
    /\ a.is_paused = b.is_paused

\* C26: for an Agent (and each Turn it holds) that is not running,
\* to_dict(from_dict(to_dict(x))) equals to_dict(x): queue order, in-flight
\* Turn, paused flag, output and stop reason of each Turn, and the hook
\* names under each event type
C26_RoundTripKeepsRecord ==
    s_pc = "done" => AgentDictEq(s_d2, s_d1)

\* the same without the hooks: everything else survives
C26_RoundTripKeepsAllButHooks ==
    s_pc = "done" =>
        /\ Len(s_d2.queue) = Len(s_d1.queue)
        /\ \A i \in 1..Len(s_d1.queue) :
               /\ s_d2.queue[i][1].tool_name = s_d1.queue[i][1].tool_name
               /\ s_d2.queue[i][1].metadata = s_d1.queue[i][1].metadata
               /\ s_d2.queue[i][1].output = s_d1.queue[i][1].output
        /\ (s_d2.current_turn = NoTurnDict) = (s_d1.current_turn = NoTurnDict)
        /\ s_d2.is_paused = s_d1.is_paused

\* ---------------------------------------------------------- guard claims

\* C28: while a Turn is running, an assignment to a field other than the
\* outcome fields raises SafeExecutionError and leaves the field as it
\* was, and an assignment to an outcome field stores the value
C28_RunningTurnGuardsFields ==
    (w_last.name # "none" /\ w_last.running) =>
        IF w_last.name \in TurnOutcomeAttrs
        THEN w_last.raised = "none" /\ w_last.stored
        ELSE w_last.raised = "SafeExecutionError" /\ w_last.kept

\* an assignment to timeout was refused on a running Turn, the field
\* holding another value than the one assigned
C28_Witness ==
    /\ w_running
    /\ w_last.name = "timeout" /\ w_last.running
    /\ w_last.raised = "SafeExecutionError" /\ ~ w_last.stored

\* C29: an assignment to an Agent attribute other than the running flag
\* and the in-flight slot raises SafeExecutionError and leaves the
\* attribute as it was when the Agent is running or paused, and stores the
\* value when it is neither
C29_BusyAgentGuardsAttributes ==
    (g_last.name \in AgentOtherAttrs) =>
        IF g_last.running \/ g_last.paused
        THEN g_last.raised = "SafeExecutionError" /\ g_last.kept
        ELSE g_last.raised = "none" /\ g_last.stored

\* an assignment was refused on a paused Agent that is not running, with
\* the attribute holding another value
C29_Witness ==
    /\ g_last.name \in AgentOtherAttrs
    /\ g_last.paused /\ ~ g_last.running
    /\ g_last.raised = "SafeExecutionError" /\ ~ g_last.stored

\* C30: in a streaming call, the step that records stop reason TIMEOUT and
\* fires on-timeout is taken after producer.cancel() with the producer task
\* ended, TurnTimeoutError is raised only after that step, and the producer
\* of a call that timed out has ended, so that it takes no further step
TimedOut(c) ==
    /\ t_method[c] = "yielding"
    /\ \/ t_pc[c] = "y_on_timeout"
       \/ t_raised[c] = "TurnTimeoutError"
       \/ \E i \in 1..Len(t_events[c]) : t_events[c][i] = "on_timeout"

C30_ProducerEndedBeforeTimeout ==
    [][\A c \in Callers :
          /\ (TimedOut(c)' /\ ~TimedOut(c)) =>
                 /\ t_pc[c] = "y_cancel"
                 /\ ProducerDone(c)
                 /\ t_meta'.stop_reason = "timeout"
                 /\ t_raised[c] # "TurnTimeoutError"
          /\ TimedOut(c)' => ProducerDone(c)']_vars

\* a streaming call ended with TurnTimeoutError after its producer was
\* cancelled inside the Tool call
C30_Witness ==
    \E c \in Callers :
        /\ t_method[c] = "yielding"
        /\ t_pc[c] = "done"
        /\ t_raised[c] = "TurnTimeoutError"
        /\ t_meta.stop_reason = "timeout"
        /\ p_cancel[c]
        /\ p_pc[c] = "done_cancelled"
        /\ \E i \in 1..Len(t_events[c]) : t_events[c][i] = "after_invoke"

\* C31 (as claimed): while an iteration of run() executes the Turn, the
\* Turn's hook list is its own hooks followed by the Agent's turn_hooks, and
\* however the iteration ended (success, timeout, exception, run() closed by
\* its consumer) the list is again what it was before
C31_HooksRestoredAfterIteration ==
    /\ th_pc \in {"turn", "yielded"} => th_hooks = th_orig \o th_agent
    /\ th_pc = "ended" => th_hooks = th_orig

\* what holds: the list is restored whenever the Turn was no longer running
\* at the end of the iteration, which leaves out only a streaming Turn
\* whose consumer closed run() between two values
C31_HooksRestoredUnlessClosedMidStream ==
    /\ th_pc \in {"turn", "yielded"} => th_hooks = th_orig \o th_agent
    /\ (th_pc = "ended" /\ th_hooks # th_orig) =>
          th_end = "closed" /\ IsAsyncGenFunction(th_kind)

\* C32: within an iteration of run(), the Turn is executed only after
\* before-turn; each value it produces is routed first, then on-turn-value
\* is fired for it, then it is yielded to the caller if and only if it is
\* neither a ContextItem nor a Turn; no value gets on-turn-value twice, as
\* the next firing needs the next value; after-turn is fired after the one
\* value of a single-result Turn and after the end of a streaming Turn
C32_IterationOrder ==
    [][/\ (a_pc' = "turn" /\ a_pc \notin {"turn", "on_turn_value", "yielded"})
             => a_pc = "before_turn" /\ a_n' = 0
       /\ (a_pc' \in {"route", "routing"} /\ a_pc \notin {"route", "routing"})
             => a_pc = "turn" /\ a_n' = a_n + 1 /\ RouteOf(a_value') # "none"
       /\ (a_pc' = "on_turn_value" /\ a_pc # "on_turn_value")
             => \/ a_pc = "turn" /\ a_n' = a_n + 1 /\ RouteOf(a_value') = "none"
                \/ a_pc \in {"route", "routing"} /\ RouteEnded
                     /\ a_value' = a_value /\ a_n' = a_n
       /\ (a_pc = "on_turn_value" /\ a_pc' # a_pc)
             => /\ a_value' = a_value
                /\ IF Forwards(a_value)
                   THEN a_pc' = "yielded" /\ a_fate' = "forwarded"
                   ELSE a_pc' \in {"turn", "after_turn"} /\ a_fate' = "consumed"
       /\ (a_pc' = "yielded" /\ a_pc # "yielded") => a_pc = "on_turn_value"
       /\ (a_pc' = "after_turn" /\ a_pc # "after_turn")
             => IF IsStreaming(a_current)
                THEN a_pc = "turn"
                ELSE a_pc \in {"on_turn_value", "yielded"} /\ a_n = 1
       /\ (a_pc = "after_turn" /\ a_pc' # a_pc)
             => a_pc' \in {"done", "on_pause", "before_turn"}
      ]_vars

\* a streaming Turn produced two values, the second one forwarded, and
\* after-turn is being fired
C32_Witness ==
    /\ a_pc = "after_turn"
    /\ IsStreaming(a_current)
    /\ a_n = 2
    /\ a_fate = "forwarded"

\* C33: at the top of the loop of run(), with a Turn to take: when the gate
\* is closed on-pause is fired, then the loop waits until resume() opens the
\* gate (not at all if it is open by then), then on-resume is fired, then
\* before-turn; when the gate is open before-turn is fired at once, with
\* neither on-pause nor on-resume
AtLoopTop == a_pc \in {"created", "after_turn"}

C33_PauseOrder ==
    [][/\ (AtLoopTop /\ a_pc' # a_pc)
             => IF a_pc' = "on_pause" THEN a_paused
                ELSE IF a_pc' = "before_turn" THEN ~a_paused
                ELSE a_pc' = "done"
       /\ (a_pc' = "on_pause" /\ a_pc # "on_pause") => AtLoopTop
       /\ (a_pc = "on_pause" /\ a_pc' # a_pc)
             => a_pc' = IF a_paused THEN "waiting" ELSE "on_resume"
       /\ (a_pc = "waiting" /\ a_pc' # a_pc)
             => a_pc' = "woken" /\ a_paused /\ ~a_paused'
       /\ (a_pc = "woken" /\ a_pc' # a_pc) => a_pc' = "on_resume"
       /\ (a_pc' = "on_resume" /\ a_pc # "on_resume")
             => a_pc \in {"on_pause", "woken"}
       /\ (a_pc = "on_resume" /\ a_pc' # a_pc) => a_pc' = "before_turn"
       /\ (a_pc' = "before_turn" /\ a_pc # "before_turn")
             => \/ a_pc = "on_resume"
                \/ AtLoopTop /\ ~a_paused
      ]_vars

\* the loop waited behind the closed gate, resume() opened it and on-resume
\* is being fired with a Turn still to take
C33_Witness ==
    /\ a_pc = "on_resume"
    /\ ~a_paused
    /\ a_queue # <<>>
    /\ a_started = <<>>

\* C34: once a hook awaited by fire() has raised, fire() has ended with
\* that exception and invokes no further hook, instance or global
C34_RaisingHookEndsFiring ==
    [][f_exc # NoHook =>
          /\ f_pc = "raised"
          /\ f_calls' = f_calls /\ f_exc' = f_exc /\ f_pc' = f_pc]_vars

\* an instance hook raised while a global hook of the fired type, free to
\* fire for this source, had not been invoked
C34_Witness ==
    /\ f_pc = "raised"
    /\ f_exc # NoHook
    /\ f_i = 1 /\ f_args = <<f_exc>>
    /\ \E i \in 1..Len(g_hooks) :
          /\ g_hooks[i] # f_exc
          /\ FiredType \in h_type[g_hooks[i]]
          /\ TagsAllow(h_tags[g_hooks[i]], f_src)
          /\ f_calls[g_hooks[i]] = 0

\* C35: a send() call leaves every Pool, every Queue, every Turn and every
\* in-flight slot as it was; when it raises nothing (the name is registered
\* and the target's own tools accept the Turn) it appends the Turn to the
\* queue of the Agent of that name and changes no other queue; with an
\* unknown name it raises UnregisteredAgentError, with a Turn the target
\* refuses ValueError, and then no queue changes
SendStep == sd_n' # sd_n

C35_SendOnlyEnqueuesOnTarget ==
    [][SendStep =>
          LET c == sd_last'
              known == c.name \in Agents /\ (c.name = "child" => b_made)
              accepted == c.tool # NoTool /\ c.tool \in ToolsOf(c.name)
          IN /\ b_pool' = b_pool /\ b_cq' = b_cq
             /\ b_cur' = b_cur /\ b_turn' = b_turn
             /\ IF known /\ accepted
                THEN /\ c.raised = "None"
                     /\ b_queue'[c.name] = Append(b_queue[c.name], c.turn)
                     /\ \A g \in Agents \ {c.name} : b_queue'[g] = b_queue[g]
                ELSE /\ c.raised = IF known THEN "ValueError"
                                   ELSE "UnregisteredAgentError"
                     /\ b_queue' = b_queue]_vars

\* the parent, with a Turn pending and an item in its Pool, sent a Turn to
\* the child, whose queue now ends with it
C35_Witness ==
    /\ sd_last.sender = "parent" /\ sd_last.name = "child"
    /\ sd_last.raised = "None"
    /\ b_queue["child"] # <<>>
    /\ b_queue["child"][Len(b_queue["child"])] = sd_last.turn
    /\ b_pool["parent"] # {}

RunCalled == a_pc = "created"

Drained ==
    /\ a_pc = "done"
    /\ a_queue = <<>>
    /\ a_current = NoTurn
    /\ ~a_running

RoutingRefused == a_pc = "done" /\ a_raised = "ValueError"

C37_EvictionFollowsFirstInsertion ==
    /\ Keys(pool_items) = [i \in 1..Len(pool_first) |-> pool_first[i].id]
    /\ pool_pc[Main] = "add_evict"
           => /\ pool_oldest[Main] = pool_first[1].id
              /\ pool_evicted[Len(pool_evicted)].id = pool_first[1].id

\* the entry being evicted was updated after a later entry was inserted
C37_Witness ==
    /\ pool_pc[Main] = "add_evict"
    /\ Len(pool_first) >= 2
    /\ pool_first[1].updated
    /\ ~pool_first[2].updated
    /\ pool_oldest[Main] = pool_items[1].id

StartsWith(queue, pending) ==
    /\ Len(pending) <= Len(queue)
    /\ SubSeq(queue, 1, Len(pending)) = pending

\* C38: when the exception of a failed Turn leaves run(), the running flag
\* is cleared, the slot is emptied and the queue is as it was; until a Turn
\* is started the pending Turns stay at the front of the queue in their
\* order; and a run() that finds the slot empty starts the head of the queue.
C38_FailureKeepsPendingTurns ==
    [][/\ (a_pc = "turn_failed" /\ a_pc' # "turn_failed")
           => /\ a_pc' = "done"
              /\ ~a_running'
              /\ a_current' = NoTurn
              /\ a_queue' = a_queue
       /\ a_started' = a_started => StartsWith(a_queue', a_queue)
       /\ (a_started' # a_started /\ a_current = NoTurn)
           => /\ a_queue # <<>>
              /\ a_current' = Head(a_queue)
              /\ a_queue' = Tail(a_queue)
              /\ a_started' = Append(a_started, Head(a_queue).turn)]_vars

\* the exception of a failed Turn has left run() and a Turn put after the
\* failed one is pending for a later run()
C38_Witness ==
    /\ a_failed # NoFailure
    /\ a_pc = "done"
    /\ ~a_running
    /\ a_current = NoTurn
    /\ a_queue # <<>>
    /\ Head(a_queue).turn > a_failed.turn
    /\ a_runs < MaxRuns

\* the call has arrived at the Tool and has not entered its body
WantsLock(c) == p_pc[c] \in {"tc_before", "tc_lockwait"}

\* the Tool call was cancelled by the timeout of its own execution
CancelledByTimeout(c) == p_pc[c] = "cancelled" \/ p_cancel[c]

LockHeldOnlyInBody == \A c \in Callers : tool_lock = c => BodyOpen(c)

\* C39 as stated: the lock is held by no call that is outside the Tool body,
\* and a call that waits for the lock or arrives later eventually acquires it
C39_LockReleasedThenAcquired ==
    /\ []LockHeldOnlyInBody
    /\ \A c \in Callers : WantsLock(c) ~> (tool_lock = c)

\* C39, amended: the lock is held by no call that is outside the Tool body,
\* and a call that waits for the lock or arrives later eventually acquires
\* it unless the timeout of its own Turn elapses first
C39_LockReleasedThenAcquiredInTime ==
    /\ []LockHeldOnlyInBody
    /\ \A c \in Callers :
           WantsLock(c) ~> (tool_lock = c \/ CancelledByTimeout(c))

\* a call holds the lock in the body after it waited for it: the call that
\* held the lock before was cancelled by its timeout
C39_Witness ==
    \E c, d \in Callers :
        /\ c # d
        /\ tool_lock = d
        /\ p_pc[d] = "tc_body"
        /\ \E i \in 1..Len(t_events[c]) : t_events[c][i] = "body"
        /\ CancelledByTimeout(c)
        /\ t_calls = 2

OutcomeEvents == {"after_run", "on_timeout", "on_error"}

OutcomeEventOf(reason) ==
    CASE reason = "completed" -> "after_run"
      [] reason = "timeout" -> "on_timeout"
      [] reason = "error" -> "on_error"
      [] OTHER -> "none"

\* the outcome events the execution of caller c has fired, in order
Outcomes(c) == SelectSeq(t_events[c], LAMBDA e : e \in OutcomeEvents)

====
